---- MODULE Spec2Model ----
(***************************************************************************)
(* Model of k8s/o11y_cluster/delta-converter/converter.py: the             *)
(* DeltaConverter pipeline that folds JSON log files of two families       *)
(* (statement, slowlog) into Delta tables and keeps a ledger of the files  *)
(* it has processed.  An instance is a place where main() is executed; a   *)
(* run is one execution of main().  Under Spec one instance executes its   *)
(* runs one after the other; under SpecReuse run() is called again on the  *)
(* DeltaConverter of one run.  SpecLines applies the line loop of          *)
(* convert_* and the record functions it calls to the lines of one file,   *)
(* SpecFrame takes a batch through _write_batch_to_delta up to the retry   *)
(* loop, and SpecInfer applies _infer_column_type to a series.             *)
(***************************************************************************)
EXTENDS Integers, Sequences, FiniteSets, TLC

(* ---------------------------- bounds ------------------------------------ *)
MaxRuns == 2
NumInstances == 2
MaxLines == 3
MaxRows == 2
MaxSample == 2
MaxCalls == 2

Instances == 1..NumInstances

(* ------------------------- program constants ---------------------------- *)
max_retries == 3
retry_delay == 1

LogTypes == <<"statement", "slowlog">>

LogSuffixes == {".json", ".json.gz", ".log.gz"}

TableName(log_type) ==
    IF log_type = "statement" THEN "persisted_statements_summary" ELSE "slowlogs"

TableNames == {TableName(LogTypes[k]) : k \in 1..Len(LogTypes)}

(* ------------------------- the object store ----------------------------- *)
(* Objects under the source prefixes, in listing order.  A path is kept as *)
(* its prefix, stem and suffix so that endswith() can be computed.         *)
Path(prefix, stem, suffix) == [prefix |-> prefix, stem |-> stem, suffix |-> suffix]

SourceObjects ==
    << Path("slowlog", "a", ".log.gz"),
       Path("statement", "a", ".json"),
       Path("statement", "b", ".json.gz"),
       Path("statement", "notes", ".txt") >>

Files == {SourceObjects[k] : k \in 1..Len(SourceObjects)}

(* A line of a source file: malformed JSON, one JSON object, a JSON array  *)
(* of two objects, or a blank line.  The contents of the source objects    *)
(* are fixed for a behaviour and drawn in Init from Layouts.               *)
LineKinds == {"bad", "obj", "arr", "blank"}

Layout(slow_a, stmt_a, stmt_b) ==
    [f \in Files |->
        CASE f = SourceObjects[1] -> slow_a
          [] f = SourceObjects[2] -> stmt_a
          [] f = SourceObjects[3] -> stmt_b
          [] OTHER -> <<"obj">>]

Layouts ==
    { Layout(<<"obj">>, <<"obj", "bad", "arr">>, <<"bad">>),
      Layout(<<"bad", "blank">>, <<"obj">>, <<"blank", "arr">>) }

VARIABLES
    source,           \* the contents of the source objects
    ledger,           \* durable: per log type, the ledger object (exists, lines)
    table,            \* durable: per table name, the batches appended so far
    schema,           \* durable: per table name, the column names of the table
    run,              \* per instance: number of runs started
    pc,               \* per run: position in main()
    processed_files,  \* per run: DeltaConverter.processed_files
    load_idx,         \* per run: index of the log type _load_processed_files is at
    family,           \* per run: the log type being converted
    new_files,        \* per run: the selection of convert_*
    i,                \* per run: index of the file loop
    batch_num,        \* per run: batch counter of convert_*
    total_records,    \* per run: total_records of convert_*
    exit_code,        \* per run: -1 while running, then the sys.exit code
    calls,            \* per run: calls of run() made on the DeltaConverter
    batch_data,       \* per iteration: records extracted from the current file
    attempt,          \* per iteration: attempt of the retry loop
    saw_exists,       \* per iteration: result of s3.exists in _save_processed_files
    outcomes,         \* per iteration, history: outcomes of the append attempts
    slept,            \* per iteration, history: the time.sleep arguments
    marked,           \* per run, history: ids this run appended to a ledger
    skipped,          \* per run, history: files whose read raised
    unsaved,          \* per run, history: files whose _save_processed_files raised
    faults,           \* per run, history: startup failures seen ("load", "list")
    prev_exhausted,   \* history: files whose append ran out of retries in the
                      \* previous run of the instance
    stages,           \* per run, history: the <<file, stage>> events in order
    content,          \* line loop: content.split('\n') of the file being parsed
    line_no,          \* line loop: index of the line the loop is at
    flat_batch,       \* line loop: the flattened records appended so far
    origin,           \* line loop, history: <<line, item>> each record came from
    frame_data,       \* _write_batch_to_delta: the batch_data argument
    df,               \* _write_batch_to_delta: the rows of the DataFrame
    frame_pc,         \* _write_batch_to_delta: position in the function
    delta_schema,     \* _write_batch_to_delta: column name -> type of delta_schema
    series,           \* _infer_column_type: the values of the series argument
    inferred          \* _infer_column_type: the type returned, "" before the call

durable   == <<source, ledger, table, schema>>
control   == <<run, pc, load_idx, family, new_files, i, exit_code>>
convert   == <<processed_files, batch_num, total_records>>
iteration == <<batch_data, attempt, saw_exists, outcomes, slept>>
fates     == <<marked, skipped, unsaved, faults, prev_exhausted>>
history   == <<fates, stages>>
pipeline  == <<durable, control, convert, iteration, history, calls>>
parser    == <<content, line_no, flat_batch, origin>>
frame     == <<frame_data, df, frame_pc, delta_schema>>
inferrer  == <<series, inferred>>
vars      == <<pipeline, parser, frame, inferrer>>

(* ------------------------------ helpers --------------------------------- *)
Set(v, r, x) == [v EXCEPT ![r] = x]

SeqToSet(s) == {s[k] : k \in 1..Len(s)}

RECURSIVE Pow2(_)
Pow2(n) == IF n = 0 THEN 1 ELSE 2 * Pow2(n - 1)

(* str.endswith on a path *)
endswith(path, suffix) == path.suffix = suffix

(* s3.find(prefix): the objects under the prefix, in listing order *)
find(prefix) == SelectSeq(SourceObjects, LAMBDA p : p.prefix = prefix)

(* _find_json_files, when the listing does not raise *)
_find_json_files(prefix) ==
    SelectSeq(find(prefix),
              LAMBDA p : endswith(p, ".json") \/ endswith(p, ".json.gz")
                                              \/ endswith(p, ".log.gz"))

(* new_files = [f for f in files if f not in self.processed_files] *)
SelectNew(files, processed) == SelectSeq(files, LAMBDA f : f \notin processed)

(* Records one line contributes to batch_data: a blank line is skipped, a   *)
(* malformed one raises JSONDecodeError and is skipped, an object gives one *)
(* record, an array one record per item.  A record is <<line, item>>.       *)
LineRecords(kind, n) ==
    CASE kind = "obj" -> << <<n, 1>> >>
      [] kind = "arr" -> << <<n, 1>>, <<n, 2>> >>
      [] OTHER        -> << >>

RECURSIVE ParseContent(_, _)
ParseContent(kinds, n) ==
    IF n > Len(kinds) THEN << >>
    ELSE LineRecords(kinds[n], n) \o ParseContent(kinds, n + 1)

(* wait_time = retry_delay * (2 ** attempt) *)
wait_time(a) == retry_delay * Pow2(a)

(* variant of RetryAllowed: max_retries read as the number of retries *)
RetryAllowed_ThreeRetries(a) == a < max_retries

(* the retry condition of the except branch, for a metadata conflict *)
RetryAllowed(a) == a < max_retries - 1

(* ------------------------------ JSON values ----------------------------- *)
(* A Python value as json.loads returns it.  A str is kept as what its text *)
(* is: the JSON text of a value (json), or words that are no JSON text (s;  *)
(* no word is the empty string, << >> is a string of white space only).  A  *)
(* dict is the sequence of its <<key, value>> items, in insertion order,    *)
(* with distinct keys that hold no '.'.                                     *)
Null == [t |-> "null"]

Num(n) == [t |-> "num", n |-> n]

Bool(b) == [t |-> "bool", b |-> b]

Str(words) == [t |-> "str", s |-> words]

JsonStr(v) == [t |-> "str", json |-> v]

Dict(kv) == [t |-> "dict", kv |-> kv]

List(items) == [t |-> "list", items |-> items]

isinstance(v, type) == v.t = type

(* outcome of a call: the value returned, or the exception raised *)
Returns(v) == [raised |-> "", val |-> v]

Raises(e) == [raised |-> e, val |-> Null]

(* json.loads(text) *)
json_loads(text) ==
    IF "json" \in DOMAIN text THEN Returns(text.json) ELSE Raises("JSONDecodeError")

(* json.dumps(v, ensure_ascii=False, default=str) *)
json_dumps(v) == JsonStr(v)

(* whether the word occurs in the JSON text of v *)
RECURSIVE Mentions(_, _)
Mentions(v, word) ==
    CASE v.t = "dict" ->
            \E n \in 1..Len(v.kv) : v.kv[n][1] = word \/ Mentions(v.kv[n][2], word)
      [] v.t = "list" -> \E n \in 1..Len(v.items) : Mentions(v.items[n], word)
      [] v.t = "str" ->
            IF "json" \in DOMAIN v THEN Mentions(v.json, word)
            ELSE word \in SeqToSet(v.s)
      [] OTHER -> FALSE

(* `key in record`: key membership for a dict, element membership for a    *)
(* list, substring test for a str, TypeError for anything else              *)
contains(record, key) ==
    CASE record.t = "dict" ->
            Returns(Bool(\E n \in 1..Len(record.kv) : record.kv[n][1] = key))
      [] record.t = "list" ->
            Returns(Bool(\E n \in 1..Len(record.items) :
                            record.items[n] = Str(<<key>>)))
      [] record.t = "str" -> Returns(Bool(Mentions(record, key)))
      [] OTHER -> Raises("TypeError")

(* record[key]: defined for a dict that holds the key, TypeError for a     *)
(* list or a str                                                            *)
getitem(record, key) ==
    IF record.t = "dict"
    THEN LET n == CHOOSE m \in 1..Len(record.kv) : record.kv[m][1] = key
         IN  Returns(record.kv[n][2])
    ELSE Raises("TypeError")

(* ------------------------------ _parse_record --------------------------- *)
(* variant of _parse_record: the message is never decoded *)
_parse_record_NoUnwrap(record) ==
    LET has == contains(record, "message")
    IN  IF has.raised # "" THEN has ELSE Returns(record)

_parse_record(record) ==
    LET has == contains(record, "message")
    IN  IF has.raised # "" THEN has
        ELSE IF ~has.val.b THEN Returns(record)
        ELSE LET message == getitem(record, "message")
             IN  IF message.raised # "" THEN message
                 ELSE IF ~isinstance(message.val, "str") THEN Returns(record)
                 ELSE LET message_data == json_loads(message.val)
                      IN  IF message_data.raised = "" THEN message_data
                          ELSE Returns(record)

(* ----------------------- _preprocess_complex_fields --------------------- *)
ComplexFields == {"auth_users", "backoff_types", "index_names"}

(* variant of _preprocess_complex_fields: returns d as it is *)
_preprocess_complex_fields_Skipped(d) == d

(* variant of _preprocess_complex_fields: the fields are looked for at      *)
(* every depth of the record                                                 *)
RECURSIVE _preprocess_complex_fields_Deep(_)
_preprocess_complex_fields_Deep(d) ==
    IF ~isinstance(d, "dict") THEN d
    ELSE Dict([n \in 1..Len(d.kv) |->
                  LET k == d.kv[n][1]
                      v == d.kv[n][2]
                  IN  IF k \in ComplexFields /\ isinstance(v, "dict")
                      THEN <<k, IF v.kv # << >> THEN json_dumps(v) ELSE Null>>
                      ELSE <<k, _preprocess_complex_fields_Deep(v)>>])

_preprocess_complex_fields(d) ==
    IF ~isinstance(d, "dict") THEN d
    ELSE Dict([n \in 1..Len(d.kv) |->
                  LET k == d.kv[n][1]
                      v == d.kv[n][2]
                  IN  IF k \in ComplexFields /\ isinstance(v, "dict")
                      THEN <<k, IF v.kv # << >> THEN json_dumps(v) ELSE Null>>
                      ELSE <<k, v>>])

(* ------------------------------ _flatten_dict --------------------------- *)
(* A column name is kept as the sequence of the keys that sep joins:        *)
(* <<"plan", "id">> is 'plan.id'.  parent_key = << >> is ''.                *)
RECURSIVE FlattenItems(_, _, _)
FlattenItems(kv, parent_key, n) ==
    IF n > Len(kv) THEN << >>
    ELSE LET k == kv[n][1]
             v == kv[n][2]
             new_key == parent_key \o <<k>>
         IN  (IF isinstance(v, "dict")
              THEN FlattenItems(v.kv, new_key, 1)
              ELSE << <<new_key, v>> >>)
             \o FlattenItems(kv, parent_key, n + 1)

(* dict(items): the last item of a key wins *)
DictOf(items) ==
    [key \in {items[n][1] : n \in 1..Len(items)} |->
        LET n == CHOOSE m \in 1..Len(items) :
                     /\ items[m][1] = key
                     /\ \A l \in (m + 1)..Len(items) : items[l][1] # key
        IN  items[n][2]]

_flatten_dict(d) ==
    IF ~isinstance(d, "dict") THEN [key \in {<<"value">>} |-> d]
    ELSE DictOf(FlattenItems(d.kv, << >>, 1))

(* ---------------------- the records of a list or a value --------------- *)
(* The records the items of a list line append before the loop ends: at the *)
(* end of the list, or at the first item whose _parse_record raises.        *)
(* variant of ItemRecords: the records of a list are appended only once    *)
(* every item of it has been normalized                                     *)
ItemRecords_AllOrNothing(items, n) ==
    IF \E m \in n..Len(items) : _parse_record(items[m]).raised # "" THEN << >>
    ELSE [m \in 1..(Len(items) - n + 1) |->
             _flatten_dict(_preprocess_complex_fields(
                 _parse_record(items[n + m - 1]).val))]

RECURSIVE ItemRecords(_, _)
ItemRecords(items, n) ==
    IF n > Len(items) THEN << >>
    ELSE LET parsed == _parse_record(items[n])
         IN  IF parsed.raised # "" THEN << >>
             ELSE <<_flatten_dict(_preprocess_complex_fields(parsed.val))>>
                  \o ItemRecords(items, n + 1)

(* The values a line may hold. *)
PlainRecord == Dict(<< <<"digest", Str(<<"d1">>)>>, <<"exec_count", Num(2)>> >>)

UsersRecord ==
    Dict(<< <<"auth_users", Dict(<< <<"root", Dict(<< >>)>> >>)>>,
            <<"plan", Dict(<< <<"id", Num(1)>> >>)>> >>)

IndexRecord ==
    Dict(<< <<"backoff_types", Dict(<< >>)>>,
            <<"index_names", Dict(<< <<"t", Dict(<< <<"k", Num(1)>> >>)>> >>)>> >>)

NestedRecord ==
    Dict(<< <<"detail", Dict(<< <<"index_names", Dict(<< <<"t", Num(1)>> >>)>> >>)>> >>)

WrappedRecord ==
    Dict(<< <<"level", Str(<<"info">>)>>, <<"message", JsonStr(UsersRecord)>> >>)

TextMessageRecord == Dict(<< <<"message", Str(<<"slow", "query">>)>> >>)

NumberMessageRecord == Dict(<< <<"message", JsonStr(Num(7))>> >>)

ObjectMessageRecord ==
    Dict(<< <<"level", Str(<<"warn">>)>>,
            <<"message", Dict(<< <<"text", Str(<<"hello">>)>> >>)>> >>)

Scalars ==
    { Num(5), Bool(TRUE), Null, Str(<<"ok">>), Str(<<"a", "message">>) }

Objects ==
    { PlainRecord, UsersRecord, IndexRecord, NestedRecord, WrappedRecord,
      TextMessageRecord, NumberMessageRecord, ObjectMessageRecord }

Arrays ==
    { List(<< >>), List(<<PlainRecord, UsersRecord>>),
      List(<<PlainRecord, Num(5), IndexRecord>>) }

(* the lines of a file: blank, no JSON text, or the JSON text of a value *)
Lines ==
    {Str(<< >>), Str(<<"{oops">>)}
        \cup {JsonStr(v) : v \in Scalars \cup Objects \cup Arrays}

Contents == UNION {[1..n -> Lines] : n \in 1..MaxLines}

(* The text a line kind of the object store stands for. *)
LineText(kind) ==
    CASE kind = "obj" -> JsonStr(PlainRecord)
      [] kind = "arr" -> JsonStr(List(<<PlainRecord, UsersRecord>>))
      [] kind = "bad" -> Str(<<"{oops">>)
      [] OTHER -> Str(<< >>)

(* the flattened records the line loop appends for one line *)
FlatRecords(line) ==
    LET data == json_loads(line)
    IN  IF line = Str(<< >>) \/ data.raised # "" THEN << >>
        ELSE IF isinstance(data.val, "list") THEN ItemRecords(data.val.items, 1)
        ELSE ItemRecords(<<data.val>>, 1)

(* ----------------- _write_batch_to_delta: the DataFrame ----------------- *)
(* df.rename(columns={old: new}), applied when old is a column *)
RenameTable ==
    << <<"begin", "summary_begin_time">>,
       <<"end", "summary_end_time">>,
       <<"normalized_sql", "digest_text">>,
       <<"sample_sql", "QUERY_SAMPLE_TEXT">>,
       <<"prev_sql", "prev_sample_text">>,
       <<"sample_plan", "plan">>,
       <<"sample_binary_plan", "binary_plan">>,
       <<"resource_group_name", "resource_group">>,
       <<"sum_num_cop_tasks", "sum_cop_task_num">>,
       <<"max_prewrite_region_num", "max_prewrite_regions">>,
       <<"sum_rru", "AVG_REQUEST_UNIT_READ">>,
       <<"sum_wru", "AVG_REQUEST_UNIT_WRITE">>,
       <<"max_rru", "MAX_REQUEST_UNIT_READ">>,
       <<"max_wru", "MAX_REQUEST_UNIT_WRITE">>,
       <<"sum_ru_wait_duration", "AVG_QUEUED_RC_TIME">>,
       <<"max_ru_wait_duration", "MAX_QUEUED_RC_TIME">>,
       <<"max_local_latch_time", "max_local_latch_wait_time">> >>

(* variant of rename: no column is renamed *)
rename_Identity(column) == column

rename(column) ==
    IF \E n \in 1..Len(RenameTable) : column = <<RenameTable[n][1]>>
    THEN <<RenameTable[CHOOSE n \in 1..Len(RenameTable) :
                           column = <<RenameTable[n][1]>>][2]>>
    ELSE column

avg_columns_map ==
    { <<"sum_latency", "avg_latency">>,
      <<"sum_parse_latency", "avg_parse_latency">>,
      <<"sum_compile_latency", "avg_compile_latency">>,
      <<"sum_process_time", "avg_process_time">>,
      <<"sum_wait_time", "avg_wait_time">>,
      <<"sum_backoff_time", "avg_backoff_time">>,
      <<"sum_total_keys", "avg_total_keys">>,
      <<"sum_processed_keys", "avg_processed_keys">>,
      <<"sum_prewrite_time", "avg_prewrite_time">>,
      <<"sum_commit_time", "avg_commit_time">>,
      <<"sum_get_commit_ts_time", "avg_get_commit_ts_time">>,
      <<"sum_commit_backoff_time", "avg_commit_backoff_time">>,
      <<"sum_resolve_lock_time", "avg_resolve_lock_time">>,
      <<"sum_local_latch_time", "avg_local_latch_wait_time">>,
      <<"sum_write_keys", "avg_write_keys">>,
      <<"sum_write_size", "avg_write_size">>,
      <<"sum_prewrite_region_num", "avg_prewrite_regions">>,
      <<"sum_txn_retry", "avg_txn_retry">>,
      <<"sum_mem", "avg_mem">>,
      <<"sum_disk", "avg_disk">>,
      <<"sum_affected_rows", "avg_affected_rows">>,
      <<"sum_rocksdb_delete_skipped_count", "avg_rocksdb_delete_skipped_count">>,
      <<"sum_rocksdb_key_skipped_count", "avg_rocksdb_key_skipped_count">>,
      <<"sum_rocksdb_block_cache_hit_count", "avg_rocksdb_block_cache_hit_count">>,
      <<"sum_rocksdb_block_read_count", "avg_rocksdb_block_read_count">>,
      <<"sum_rocksdb_block_read_byte", "avg_rocksdb_block_read_byte">>,
      <<"sum_kv_total", "avg_kv_time">>,
      <<"sum_pd_total", "avg_pd_time">>,
      <<"sum_backoff_total", "avg_backoff_total_time">>,
      <<"sum_write_sql_resp_total", "avg_write_sql_resp_time">>,
      <<"sum_tidb_cpu", "avg_tidb_cpu_time">>,
      <<"sum_tikv_cpu", "avg_tikv_cpu_time">>,
      <<"sum_result_rows", "avg_result_rows">> }

(* df.columns when the frame goes to pa.Table.from_pandas: the keys of the  *)
(* records, renamed, with sample_user, the avg_* columns, processed_at and  *)
(* batch_num                                                                *)
df_columns(records) ==
    LET keys == UNION {DOMAIN records[k] : k \in 1..Len(records)}
        renamed == {rename(c) : c \in keys}
        with_user == renamed \cup (IF <<"auth_users">> \in renamed
                                   THEN {<<"sample_user">>} ELSE {})
        with_avg == with_user \cup
                    (IF <<"exec_count">> \in with_user
                     THEN {<<m[2]>> : m \in {q \in avg_columns_map :
                                                <<q[1]>> \in with_user}}
                     ELSE {})
    IN  with_avg \cup {<<"processed_at">>, <<"batch_num">>}

(* The column names of a table after a commit with schema_mode="merge":     *)
(* columns of the batch that the table lacks are added, the others stay.    *)
MergeSchema(existing_columns, new_columns) == existing_columns \cup new_columns

(* variant of write_deltalake: schema_mode="overwrite" *)
write_deltalake_OverwriteSchema(table_name, batch) ==
    /\ table' = [table EXCEPT ![table_name] = Append(@, batch)]
    /\ schema' = [schema EXCEPT ![table_name] = batch.columns]

(* write_deltalake(table_path, pa_table, mode="append", schema_mode="merge") *)
(* commits                                                                   *)
write_deltalake(table_name, batch) ==
    /\ table' = [table EXCEPT ![table_name] = Append(@, batch)]
    /\ schema' = [schema EXCEPT ![table_name] = MergeSchema(@, batch.columns)]

(* ------------------------------- Init ----------------------------------- *)
NoLedger == [exists |-> FALSE, lines |-> << >>]

InitRun ==
    /\ ledger = [t \in SeqToSet(LogTypes) |-> NoLedger]
    /\ table = [t \in TableNames |-> << >>]
    /\ schema = [t \in TableNames |-> {}]
    /\ run = [r \in Instances |-> 0]
    /\ pc = [r \in Instances |-> "idle"]
    /\ processed_files = [r \in Instances |-> {}]
    /\ load_idx = [r \in Instances |-> 1]
    /\ family = [r \in Instances |-> "statement"]
    /\ new_files = [r \in Instances |-> << >>]
    /\ i = [r \in Instances |-> 1]
    /\ batch_num = [r \in Instances |-> 1]
    /\ total_records = [r \in Instances |-> 0]
    /\ exit_code = [r \in Instances |-> -1]
    /\ calls = [r \in Instances |-> 0]
    /\ batch_data = [r \in Instances |-> << >>]
    /\ attempt = [r \in Instances |-> 0]
    /\ saw_exists = [r \in Instances |-> FALSE]
    /\ outcomes = [r \in Instances |-> << >>]
    /\ slept = [r \in Instances |-> << >>]
    /\ marked = [r \in Instances |-> {}]
    /\ skipped = [r \in Instances |-> {}]
    /\ unsaved = [r \in Instances |-> {}]
    /\ faults = [r \in Instances |-> {}]
    /\ prev_exhausted = [r \in Instances |-> {}]
    /\ stages = [r \in Instances |-> << >>]

(* no file is in the line loop *)
InitParser ==
    /\ content = << >>
    /\ line_no = 1
    /\ flat_batch = << >>
    /\ origin = << >>

(* no batch is in _write_batch_to_delta *)
InitFrame ==
    /\ frame_data = << >>
    /\ df = << >>
    /\ frame_pc = "off"
    /\ delta_schema = << >>

(* no series is in _infer_column_type *)
InitInferrer ==
    /\ series = << >>
    /\ inferred = "off"

Init ==
    /\ source \in Layouts
    /\ InitRun
    /\ InitParser
    /\ InitFrame
    /\ InitInferrer

(* the file reaches a stage of its state machine *)
Stage(r, events) == stages' = Set(stages, r, stages[r] \o events)

(* --------------------------- control transfer --------------------------- *)
(* convert_* returns normally: run() goes on to the next family, or main    *)
(* exits 0 after the last one.                                              *)
Return(r) ==
    IF family[r] = "statement"
    THEN /\ family' = Set(family, r, "slowlog")
         /\ pc' = Set(pc, r, "find")
         /\ UNCHANGED exit_code
    ELSE /\ pc' = Set(pc, r, "done")
         /\ exit_code' = Set(exit_code, r, 0)
         /\ UNCHANGED family

CurrentFile(r) == new_files[r][i[r]]

(* The locals of one iteration of the file loop go out of scope:            *)
(* batch_data = [] at the top of the next one.                              *)
EndIteration(r) ==
    /\ batch_data' = Set(batch_data, r, << >>)
    /\ attempt' = Set(attempt, r, 0)
    /\ saw_exists' = Set(saw_exists, r, FALSE)
    /\ outcomes' = Set(outcomes, r, << >>)
    /\ slept' = Set(slept, r, << >>)

(* end of one iteration of the file loop (also `continue`) *)
LoopNext(r) ==
    /\ EndIteration(r)
    /\ IF i[r] < Len(new_files[r])
       THEN /\ i' = Set(i, r, i[r] + 1)
            /\ pc' = Set(pc, r, "read")
            /\ UNCHANGED <<family, exit_code>>
       ELSE /\ Return(r)
            /\ UNCHANGED i

(* variant of Raise: the failure is logged and the file loop goes on *)
Raise_SkipFile(r) ==
    IF i[r] < Len(new_files[r])
    THEN /\ i' = Set(i, r, i[r] + 1)
         /\ pc' = Set(pc, r, "read")
         /\ UNCHANGED <<family, exit_code>>
    ELSE /\ Return(r)
         /\ UNCHANGED i

(* variant of Raise: run() catches what convert_statements raises and goes  *)
(* on to convert_slowlogs                                                   *)
Raise_NextFamily(r) ==
    IF family[r] = "statement"
    THEN /\ family' = Set(family, r, "slowlog")
         /\ pc' = Set(pc, r, "find")
         /\ UNCHANGED <<exit_code, i>>
    ELSE /\ pc' = Set(pc, r, "done")
         /\ exit_code' = Set(exit_code, r, 1)
         /\ UNCHANGED <<family, i>>

(* an exception leaves run() and main exits 1 *)
Raise(r) ==
    /\ pc' = Set(pc, r, "done")
    /\ exit_code' = Set(exit_code, r, 1)
    /\ UNCHANGED <<family, i>>

(* --------------------- __init__: _load_processed_files ------------------ *)
LoadDone(r) ==
    IF load_idx[r] < Len(LogTypes)
    THEN /\ load_idx' = Set(load_idx, r, load_idx[r] + 1)
         /\ UNCHANGED pc
    ELSE /\ pc' = Set(pc, r, "find")
         /\ UNCHANGED load_idx

(* exists() and read() succeed: the ids of the ledger join processed_files *)
LoadOk(r) ==
    /\ pc[r] = "load"
    /\ LET lg == ledger[LogTypes[load_idx[r]]]
       IN  processed_files' =
               Set(processed_files, r,
                   IF lg.exists THEN processed_files[r] \cup SeqToSet(lg.lines)
                                ELSE processed_files[r])
    /\ LoadDone(r)
    /\ UNCHANGED <<durable, run, family, new_files, i, exit_code>>
    /\ UNCHANGED <<batch_num, total_records, iteration, history>>
    /\ UNCHANGED <<parser, frame, inferrer, calls>>

(* exists() or open()/read() raises: caught, logged at debug level *)
LoadRaise(r) ==
    /\ pc[r] = "load"
    /\ faults' = Set(faults, r, faults[r] \cup {"load"})
    /\ LoadDone(r)
    /\ UNCHANGED <<durable, run, family, new_files, i, exit_code>>
    /\ UNCHANGED <<convert, iteration, marked, skipped, unsaved, prev_exhausted, stages>>
    /\ UNCHANGED <<parser, frame, inferrer, calls>>

(* ------------------ convert_statements / convert_slowlogs --------------- *)
(* variant of FindOk: the selected files join processed_files at once *)
FindOk_MarksSelected(r) ==
    /\ pc[r] = "find"
    /\ LET sel == SelectNew(_find_json_files(family[r]), processed_files[r])
       IN  /\ new_files' = Set(new_files, r, sel)
           /\ Stage(r, [k \in 1..Len(sel) |-> <<sel[k], "Selected">>])
           /\ processed_files' =
                  Set(processed_files, r, processed_files[r] \cup SeqToSet(sel))
           /\ IF sel = << >>
              THEN Return(r) /\ UNCHANGED i
              ELSE /\ pc' = Set(pc, r, "read")
                   /\ i' = Set(i, r, 1)
                   /\ UNCHANGED <<family, exit_code>>
    /\ batch_num' = Set(batch_num, r, 1)
    /\ total_records' = Set(total_records, r, 0)
    /\ UNCHANGED <<durable, run, load_idx, iteration, fates>>
    /\ UNCHANGED <<parser, frame, inferrer, calls>>

(* listing succeeds; selection; empty selection returns at once *)
FindOk(r) ==
    /\ pc[r] = "find"
    /\ LET sel == SelectNew(_find_json_files(family[r]), processed_files[r])
       IN  /\ new_files' = Set(new_files, r, sel)
           /\ Stage(r, [k \in 1..Len(sel) |-> <<sel[k], "Selected">>])
           /\ IF sel = << >>
              THEN Return(r) /\ UNCHANGED i
              ELSE /\ pc' = Set(pc, r, "read")
                   /\ i' = Set(i, r, 1)
                   /\ UNCHANGED <<family, exit_code>>
    /\ batch_num' = Set(batch_num, r, 1)
    /\ total_records' = Set(total_records, r, 0)
    /\ UNCHANGED <<durable, run, load_idx, processed_files, iteration, fates>>
    /\ UNCHANGED <<parser, frame, inferrer, calls>>

(* s3.find raises: caught in _find_json_files, files = [] and convert_* returns *)
FindRaise(r) ==
    /\ pc[r] = "find"
    /\ new_files' = Set(new_files, r, << >>)
    /\ faults' = Set(faults, r, faults[r] \cup {"list"})
    /\ Return(r)
    /\ UNCHANGED <<durable, run, load_idx, i, convert, iteration>>
    /\ UNCHANGED <<marked, skipped, unsaved, prev_exhausted, stages>>
    /\ UNCHANGED <<parser, frame, inferrer, calls>>

(* variant of ReadOk: the ledger append sits under `if batch_data:` *)
ReadOk_EmptyNotMarked(r) ==
    /\ pc[r] = "read"
    /\ LET recs == ParseContent(source[CurrentFile(r)], 1)
       IN  IF recs # << >>
           THEN /\ batch_data' = Set(batch_data, r, recs)
                /\ pc' = Set(pc, r, "prepare")
                /\ UNCHANGED <<family, i, exit_code>>
                /\ UNCHANGED <<attempt, saw_exists, outcomes, slept>>
           ELSE LoopNext(r)
    /\ UNCHANGED <<durable, run, load_idx, new_files, convert, fates>>
    /\ Stage(r, << <<CurrentFile(r), "Read">>, <<CurrentFile(r), "Parsed">> >>)
    /\ UNCHANGED <<parser, frame, inferrer, calls>>

(* the file is read and its lines parsed; a non-empty batch is written, an  *)
(* empty one goes straight to _save_processed_files                         *)
ReadOk(r) ==
    /\ pc[r] = "read"
    /\ LET recs == ParseContent(source[CurrentFile(r)], 1)
       IN  /\ batch_data' = Set(batch_data, r, recs)
           /\ pc' = Set(pc, r, IF recs # << >> THEN "prepare" ELSE "save_exists")
    /\ UNCHANGED <<durable, run, load_idx, family, new_files, i, exit_code>>
    /\ UNCHANGED <<convert, attempt, saw_exists, outcomes, slept, fates>>
    /\ Stage(r, << <<CurrentFile(r), "Read">>, <<CurrentFile(r), "Parsed">> >>)
    /\ UNCHANGED <<parser, frame, inferrer, calls>>

(* variant of ReadRaise: the except branch lacks `continue` *)
ReadRaise_FallsThrough(r) ==
    /\ pc[r] = "read"
    /\ skipped' = Set(skipped, r, skipped[r] \cup {CurrentFile(r)})
    /\ batch_data' = Set(batch_data, r, << >>)
    /\ pc' = Set(pc, r, "save_exists")
    /\ UNCHANGED <<durable, run, load_idx, family, new_files, i, exit_code>>
    /\ UNCHANGED <<convert, attempt, saw_exists, outcomes, slept>>
    /\ UNCHANGED <<marked, unsaved, faults, prev_exhausted, stages>>
    /\ UNCHANGED <<parser, frame, inferrer, calls>>

(* open, gzip or decode raises: warning, `continue` *)
ReadRaise(r) ==
    /\ pc[r] = "read"
    /\ skipped' = Set(skipped, r, skipped[r] \cup {CurrentFile(r)})
    /\ LoopNext(r)
    /\ UNCHANGED <<durable, run, load_idx, new_files, convert>>
    /\ UNCHANGED <<marked, unsaved, faults, prev_exhausted, stages>>
    /\ UNCHANGED <<parser, frame, inferrer, calls>>

(* -------------------------- _write_batch_to_delta ----------------------- *)
(* Everything before the retry loop: preprocessing, DataFrame, renames,     *)
(* schema, pa.Table.from_pandas.  It touches no durable state.              *)
PrepareOk(r) ==
    /\ pc[r] = "prepare"
    /\ pc' = Set(pc, r, "write")
    /\ attempt' = Set(attempt, r, 0)
    /\ UNCHANGED <<durable, run, load_idx, family, new_files, i, exit_code>>
    /\ UNCHANGED <<convert, batch_data, saw_exists, outcomes, slept, history>>
    /\ UNCHANGED <<parser, frame, inferrer, calls>>

(* the same code raises (e.g. a value does not convert to the schema type): *)
(* logged and re-raised by the outer except                                 *)
PrepareRaise(r) ==
    /\ pc[r] = "prepare"
    /\ Raise(r)
    /\ UNCHANGED <<durable, run, load_idx, new_files, convert, iteration, history>>
    /\ UNCHANGED <<parser, frame, inferrer, calls>>

(* batch_data of a file, as flattened records *)
RECURSIVE FileRecords(_, _)
FileRecords(kinds, n) ==
    IF n > Len(kinds) THEN << >>
    ELSE FlatRecords(LineText(kinds[n])) \o FileRecords(kinds, n + 1)

(* pa_table.column_names, for each content a source object can have.  The   *)
(* table is tabulated once: merged with the empty function it is a value,   *)
(* where the bare constructor would be recomputed at every application.     *)
pa_table_columns ==
    [kinds \in UNION {[1..n -> LineKinds] : n \in 0..MaxLines} |->
        df_columns(FileRecords(kinds, 1))] @@ << >>

(* the batch as the table holds it; `by` is the instance and run that       *)
(* appended it, `columns` the column names of pa_table                      *)
Batch(r) ==
    [file |-> CurrentFile(r), rows |-> Len(batch_data[r]), by |-> <<r, run[r]>>,
     columns |-> pa_table_columns[source[CurrentFile(r)]]]

(* variant of WriteOk: the retry loop lacks `break` *)
WriteOk_NoBreak(r) ==
    /\ pc[r] = "write"
    /\ write_deltalake(TableName(family[r]), Batch(r))
    /\ outcomes' = Set(outcomes, r, Append(outcomes[r], "ok"))
    /\ IF attempt[r] < max_retries - 1
       THEN /\ attempt' = Set(attempt, r, attempt[r] + 1)
            /\ UNCHANGED <<pc, total_records, batch_num>>
       ELSE /\ total_records' =
                   Set(total_records, r, total_records[r] + Len(batch_data[r]))
            /\ batch_num' = Set(batch_num, r, batch_num[r] + 1)
            /\ pc' = Set(pc, r, "save_exists")
            /\ UNCHANGED attempt
    /\ UNCHANGED <<source, ledger, run, load_idx, family, new_files, i, exit_code>>
    /\ UNCHANGED <<processed_files, batch_data, saw_exists, slept, fates>>
    /\ Stage(r, << <<CurrentFile(r), "Written">> >>)
    /\ UNCHANGED <<parser, frame, inferrer, calls>>

(* variant of WriteOk: an instance holds a lease on the file from its append *)
(* to its ledger update, and no other instance appends the file meanwhile    *)
WriteOk_Leased(r) ==
    /\ pc[r] = "write"
    /\ \A q \in Instances \ {r} :
          ~(pc[q] \in {"save_exists", "save_write"} /\ CurrentFile(q) = CurrentFile(r))
    /\ write_deltalake(TableName(family[r]), Batch(r))
    /\ outcomes' = Set(outcomes, r, Append(outcomes[r], "ok"))
    /\ total_records' = Set(total_records, r, total_records[r] + Len(batch_data[r]))
    /\ batch_num' = Set(batch_num, r, batch_num[r] + 1)
    /\ pc' = Set(pc, r, "save_exists")
    /\ UNCHANGED <<source, ledger, run, load_idx, family, new_files, i, exit_code>>
    /\ UNCHANGED <<processed_files, batch_data, attempt, saw_exists, slept, fates>>
    /\ Stage(r, << <<CurrentFile(r), "Written">> >>)
    /\ UNCHANGED <<parser, frame, inferrer, calls>>

(* write_deltalake commits: break, return, total_records and batch_num move *)
WriteOk(r) ==
    /\ pc[r] = "write"
    /\ write_deltalake(TableName(family[r]), Batch(r))
    /\ outcomes' = Set(outcomes, r, Append(outcomes[r], "ok"))
    /\ total_records' = Set(total_records, r, total_records[r] + Len(batch_data[r]))
    /\ batch_num' = Set(batch_num, r, batch_num[r] + 1)
    /\ pc' = Set(pc, r, "save_exists")
    /\ UNCHANGED <<source, ledger, run, load_idx, family, new_files, i, exit_code>>
    /\ UNCHANGED <<processed_files, batch_data, attempt, saw_exists, slept, fates>>
    /\ Stage(r, << <<CurrentFile(r), "Written">> >>)
    /\ UNCHANGED <<parser, frame, inferrer, calls>>

(* variant of WriteConflict: `while True` in place of range(max_retries): a   *)
(* metadata conflict is always retried                                       *)
WriteConflict_RetriesForever(r) ==
    /\ pc[r] = "write"
    /\ attempt' = Set(attempt, r, (attempt[r] + 1) % max_retries)
    /\ UNCHANGED <<durable, control, convert, batch_data, saw_exists>>
    /\ UNCHANGED <<outcomes, slept, history>>
    /\ UNCHANGED <<parser, frame, inferrer, calls>>

(* write_deltalake raises "Metadata changed": sleep and go round again while *)
(* attempt < max_retries - 1, otherwise re-raise                             *)
WriteConflict(r) ==
    /\ pc[r] = "write"
    /\ outcomes' = Set(outcomes, r, Append(outcomes[r], "conflict"))
    /\ IF RetryAllowed(attempt[r])
       THEN /\ slept' = Set(slept, r, Append(slept[r], wait_time(attempt[r])))
            /\ attempt' = Set(attempt, r, attempt[r] + 1)
            /\ UNCHANGED <<pc, family, i, exit_code>>
       ELSE /\ Raise(r)
            /\ UNCHANGED <<slept, attempt>>
    /\ UNCHANGED <<durable, run, load_idx, new_files>>
    /\ UNCHANGED <<convert, batch_data, saw_exists, history>>
    /\ UNCHANGED <<parser, frame, inferrer, calls>>

(* variant of WriteError: the outer except logs and does not re-raise *)
WriteError_Swallowed(r) ==
    /\ pc[r] = "write"
    /\ outcomes' = Set(outcomes, r, Append(outcomes[r], "error"))
    /\ pc' = Set(pc, r, "save_exists")
    /\ UNCHANGED <<durable, run, load_idx, family, new_files, i, exit_code>>
    /\ UNCHANGED <<convert, batch_data, attempt, saw_exists, slept, history>>
    /\ UNCHANGED <<parser, frame, inferrer, calls>>

(* variant of WriteError: every failure is retried like a metadata conflict *)
WriteError_Retried(r) ==
    /\ pc[r] = "write"
    /\ outcomes' = Set(outcomes, r, Append(outcomes[r], "error"))
    /\ IF RetryAllowed(attempt[r])
       THEN /\ slept' = Set(slept, r, Append(slept[r], wait_time(attempt[r])))
            /\ attempt' = Set(attempt, r, attempt[r] + 1)
            /\ UNCHANGED <<pc, family, i, exit_code>>
       ELSE /\ Raise(r)
            /\ UNCHANGED <<slept, attempt>>
    /\ UNCHANGED <<durable, run, load_idx, new_files>>
    /\ UNCHANGED <<convert, batch_data, saw_exists, history>>
    /\ UNCHANGED <<parser, frame, inferrer, calls>>

(* write_deltalake raises anything else: re-raised at once *)
WriteError(r) ==
    /\ pc[r] = "write"
    /\ outcomes' = Set(outcomes, r, Append(outcomes[r], "error"))
    /\ Raise(r)
    /\ UNCHANGED <<durable, run, load_idx, new_files>>
    /\ UNCHANGED <<convert, batch_data, attempt, saw_exists, slept, history>>
    /\ UNCHANGED <<parser, frame, inferrer, calls>>

(* --------------------------- _save_processed_files ---------------------- *)
(* s3.exists(path) answers *)
SaveExists(r) ==
    /\ pc[r] = "save_exists"
    /\ saw_exists' = Set(saw_exists, r, ledger[family[r]].exists)
    /\ pc' = Set(pc, r, "save_write")
    /\ UNCHANGED <<durable, run, load_idx, family, new_files, i, exit_code>>
    /\ UNCHANGED <<convert, batch_data, attempt, outcomes, slept, history>>
    /\ UNCHANGED <<parser, frame, inferrer, calls>>

(* open 'a' appends the line, open 'w' creates the object with the line *)
LedgerWrite(lg, appendMode, ids) ==
    [exists |-> TRUE, lines |-> IF appendMode THEN lg.lines \o ids ELSE ids]

(* variant of SaveWrite: the log type of convert_statements is used for both *)
(* families                                                                  *)
SaveWrite_OneLedger(r) ==
    /\ pc[r] = "save_write"
    /\ ledger' = [ledger EXCEPT !["statement"] =
                      LedgerWrite(@, saw_exists[r], <<CurrentFile(r)>>)]
    /\ marked' = Set(marked, r, marked[r] \cup {CurrentFile(r)})
    /\ LoopNext(r)
    /\ UNCHANGED <<source, table, schema, run, load_idx, new_files, convert>>
    /\ UNCHANGED <<skipped, unsaved, faults, prev_exhausted>>
    /\ Stage(r, << <<CurrentFile(r), "MarkedProcessed">> >>)
    /\ UNCHANGED <<parser, frame, inferrer, calls>>

(* variant of SaveWrite: the id also joins self.processed_files *)
SaveWrite_UpdatesMemory(r) ==
    /\ pc[r] = "save_write"
    /\ ledger' = [ledger EXCEPT ![family[r]] =
                      LedgerWrite(@, saw_exists[r], <<CurrentFile(r)>>)]
    /\ marked' = Set(marked, r, marked[r] \cup {CurrentFile(r)})
    /\ processed_files' =
           Set(processed_files, r, processed_files[r] \cup {CurrentFile(r)})
    /\ LoopNext(r)
    /\ UNCHANGED <<source, table, schema, run, load_idx, new_files>>
    /\ UNCHANGED <<batch_num, total_records>>
    /\ UNCHANGED <<skipped, unsaved, faults, prev_exhausted>>
    /\ Stage(r, << <<CurrentFile(r), "MarkedProcessed">> >>)
    /\ UNCHANGED <<parser, frame, inferrer, calls>>

SaveWrite(r) ==
    /\ pc[r] = "save_write"
    /\ ledger' = [ledger EXCEPT ![family[r]] =
                      LedgerWrite(@, saw_exists[r], <<CurrentFile(r)>>)]
    /\ marked' = Set(marked, r, marked[r] \cup {CurrentFile(r)})
    /\ LoopNext(r)
    /\ UNCHANGED <<source, table, schema, run, load_idx, new_files, convert>>
    /\ UNCHANGED <<skipped, unsaved, faults, prev_exhausted>>
    /\ Stage(r, << <<CurrentFile(r), "MarkedProcessed">> >>)
    /\ UNCHANGED <<parser, frame, inferrer, calls>>

(* variant of SaveRaise: the exception leaves _save_processed_files *)
SaveRaise_Propagates(r) ==
    /\ pc[r] \in {"save_exists", "save_write"}
    /\ unsaved' = Set(unsaved, r, unsaved[r] \cup {CurrentFile(r)})
    /\ Raise(r)
    /\ UNCHANGED <<durable, run, load_idx, new_files, convert, iteration>>
    /\ UNCHANGED <<marked, skipped, faults, prev_exhausted, stages>>
    /\ UNCHANGED <<parser, frame, inferrer, calls>>

(* exists, open or write raises: caught, logged as a warning; the loop goes on *)
SaveRaise(r) ==
    /\ pc[r] \in {"save_exists", "save_write"}
    /\ unsaved' = Set(unsaved, r, unsaved[r] \cup {CurrentFile(r)})
    /\ LoopNext(r)
    /\ UNCHANGED <<durable, run, load_idx, new_files, convert>>
    /\ UNCHANGED <<marked, skipped, faults, prev_exhausted, stages>>
    /\ UNCHANGED <<parser, frame, inferrer, calls>>

(* the retry loop ended by re-raising a metadata conflict *)
Exhausted(r) ==
    /\ pc[r] = "done"
    /\ exit_code[r] = 1
    /\ outcomes[r] # << >>
    /\ outcomes[r][Len(outcomes[r])] = "conflict"

(* --------------------------------- main --------------------------------- *)
(* main() starts: a new process, a new DeltaConverter.  Nothing of the      *)
(* previous run's memory survives; the ledger and the tables do.            *)
Start(r, limit) ==
    /\ pc[r] \in {"idle", "done"}
    /\ run[r] < limit
    /\ run' = Set(run, r, run[r] + 1)
    /\ pc' = Set(pc, r, "load")
    /\ processed_files' = Set(processed_files, r, {})
    /\ load_idx' = Set(load_idx, r, 1)
    /\ family' = Set(family, r, "statement")
    /\ new_files' = Set(new_files, r, << >>)
    /\ i' = Set(i, r, 1)
    /\ batch_num' = Set(batch_num, r, 1)
    /\ total_records' = Set(total_records, r, 0)
    /\ exit_code' = Set(exit_code, r, -1)
    /\ EndIteration(r)
    /\ marked' = Set(marked, r, {})
    /\ skipped' = Set(skipped, r, {})
    /\ unsaved' = Set(unsaved, r, {})
    /\ faults' = Set(faults, r, {})
    /\ prev_exhausted' = Set(prev_exhausted, r,
                             IF Exhausted(r) THEN {CurrentFile(r)} ELSE {})
    /\ stages' = Set(stages, r, << >>)
    /\ calls' = Set(calls, r, 1)
    /\ UNCHANGED durable
    /\ UNCHANGED <<parser, frame, inferrer>>

StartRun(r) == Start(r, MaxRuns)

(* ----------------------------- specification ---------------------------- *)
Work(r) ==
    \/ LoadOk(r)
    \/ LoadRaise(r)
    \/ FindOk(r)
    \/ FindRaise(r)
    \/ ReadOk(r)
    \/ ReadRaise(r)
    \/ PrepareOk(r)
    \/ PrepareRaise(r)
    \/ WriteOk(r)
    \/ WriteConflict(r)
    \/ WriteError(r)
    \/ SaveExists(r)
    \/ SaveWrite(r)
    \/ SaveRaise(r)

(* Runs do not overlap: one instance executes main() again and again. *)
Next == StartRun(1) \/ Work(1)

Spec == Init /\ [][Next]_vars

(* A process that has started goes on: every call of a run returns or       *)
(* raises, and the next statement is executed.                              *)
SpecFair == Spec /\ WF_vars(Work(1))

(* The same with one more run. *)
StartRunLong(r) == Start(r, MaxRuns + 1)

NextLong == StartRunLong(1) \/ Work(1)

SpecLong == Init /\ [][NextLong]_vars

(* Two runs overlap: instances 1 and 2 execute main() once each, and their  *)
(* steps interleave.  Nothing in the code orders two processes.             *)
StartOnce(r) == Start(r, 1)

NextOverlap == \E r \in {1, 2} : StartOnce(r) \/ Work(r)

SpecOverlap == Init /\ [][NextOverlap]_vars

(* The DeltaConverter is used again: once run() has returned, a caller      *)
(* other than main() calls run() on the same object, whose processed_files  *)
(* is what __init__ loaded.                                                 *)
RunAgain(r) ==
    /\ pc[r] = "done"
    /\ exit_code[r] = 0
    /\ calls[r] < MaxCalls
    /\ calls' = Set(calls, r, calls[r] + 1)
    /\ pc' = Set(pc, r, "find")
    /\ family' = Set(family, r, "statement")
    /\ exit_code' = Set(exit_code, r, -1)
    /\ UNCHANGED <<durable, run, load_idx, new_files, i, convert, iteration, history>>
    /\ UNCHANGED <<parser, frame, inferrer>>

NextReuse == StartOnce(1) \/ Work(1) \/ RunAgain(1)

SpecReuse == Init /\ [][NextReuse]_vars

(* ------------------------- the line loop, line by line ------------------ *)
(* batch_data.append(flattened), for the records a line gives *)
AppendRecords(recs) ==
    /\ flat_batch' = flat_batch \o recs
    /\ origin' = origin \o [k \in 1..Len(recs) |-> <<line_no, k>>]

(* `if line.strip()` is false *)
ParseBlank ==
    /\ line_no <= Len(content)
    /\ content[line_no] = Str(<< >>)
    /\ line_no' = line_no + 1
    /\ UNCHANGED <<pipeline, frame, inferrer, content, flat_batch, origin>>

(* variant of ParseMalformed: `break` in place of `continue` *)
ParseMalformed_Break ==
    /\ line_no <= Len(content)
    /\ content[line_no] # Str(<< >>)
    /\ json_loads(content[line_no]).raised # ""
    /\ line_no' = Len(content) + 1
    /\ UNCHANGED <<pipeline, frame, inferrer, content, flat_batch, origin>>

(* json.loads(line) raises JSONDecodeError: debug log, continue *)
ParseMalformed ==
    /\ line_no <= Len(content)
    /\ content[line_no] # Str(<< >>)
    /\ json_loads(content[line_no]).raised # ""
    /\ line_no' = line_no + 1
    /\ UNCHANGED <<pipeline, frame, inferrer, content, flat_batch, origin>>

(* data is a list: one record per item, until an item raises TypeError *)
ParseList ==
    /\ line_no <= Len(content)
    /\ LET data == json_loads(content[line_no])
       IN  /\ data.raised = ""
           /\ isinstance(data.val, "list")
           /\ AppendRecords(ItemRecords(data.val.items, 1))
    /\ line_no' = line_no + 1
    /\ UNCHANGED <<pipeline, frame, inferrer, content>>

(* data is no list: one record, or none when _parse_record raises TypeError *)
ParseValue ==
    /\ line_no <= Len(content)
    /\ LET data == json_loads(content[line_no])
       IN  /\ data.raised = ""
           /\ ~isinstance(data.val, "list")
           /\ AppendRecords(ItemRecords(<<data.val>>, 1))
    /\ line_no' = line_no + 1
    /\ UNCHANGED <<pipeline, frame, inferrer, content>>

(* A file of at most MaxLines lines goes through the line loop. *)
InitLines ==
    /\ source = Layout(<<"obj">>, <<"obj">>, <<"obj">>)
    /\ InitRun
    /\ content \in Contents
    /\ line_no = 1
    /\ flat_batch = << >>
    /\ origin = << >>
    /\ InitFrame
    /\ InitInferrer

NextLines == ParseBlank \/ ParseMalformed \/ ParseList \/ ParseValue

SpecLines == InitLines /\ [][NextLines]_vars

(* ------------- _write_batch_to_delta: the DataFrame, row by row --------- *)
(* Values pandas adds to the Python values: NaN (a missing value of a       *)
(* column, or a float that is no number), NaT, a float as the fraction n/d  *)
(* in lowest terms with d > 0 (d = 0 is inf), a datetime as its seconds     *)
(* since the epoch.  A str may also be given as the ISO text of an instant  *)
(* (iso), or character by character (chars) when it is no JSON text.        *)
NaN == [t |-> "nan"]

NaT == [t |-> "nat"]

Float(n, d) == [t |-> "float", n |-> n, d |-> d]

Datetime(n) == [t |-> "datetime", n |-> n]

IsoStr(n) == [t |-> "str", iso |-> n]

Text(chars) == [t |-> "str", chars |-> chars]

(* pd.isna(v) *)
isna(v) == v.t \in {"null", "nan", "nat"}

(* bool(v) *)
truthy(v) ==
    CASE v.t = "num" -> v.n # 0
      [] v.t = "bool" -> v.b
      [] v.t = "float" -> v.n # 0
      [] v.t = "str" -> ~("chars" \in DOMAIN v /\ v.chars = << >>)
      [] v.t = "dict" -> v.kv # << >>
      [] v.t = "list" -> v.items # << >>
      [] v.t = "null" -> FALSE
      [] OTHER -> TRUE

RECURSIVE gcd(_, _)
gcd(a, b) == IF b = 0 THEN a ELSE gcd(b, a % b)

(* the float n/d *)
Fraction(n, d) ==
    IF d = 0 THEN (IF n = 0 THEN NaN ELSE Float(IF n < 0 THEN -1 ELSE 1, 0))
    ELSE LET s == IF d < 0 THEN -1 ELSE 1
             g == gcd(IF n < 0 THEN -n ELSE n, s * d)
         IN  Float((s * n) \div g, (s * d) \div g)

(* a / b on floats *)
truediv(a, b) ==
    IF a.t = "nan" \/ b.t = "nan" THEN NaN ELSE Fraction(a.n * b.d, a.d * b.n)

(* A row of the frame is a function from the column names it has a value    *)
(* for; a column the row has no value for reads NaN.                        *)
Col(name) == <<name>>

At(row, column) == IF column \in DOMAIN row THEN row[column] ELSE NaN

(* df.columns *)
columns(frame_rows) == UNION {DOMAIN frame_rows[k] : k \in 1..Len(frame_rows)}

(* df[column] *)
Column(frame_rows, column) ==
    [k \in 1..Len(frame_rows) |-> At(frame_rows[k], column)]

(* df[column] = values *)
Assign(frame_rows, column, values) ==
    [k \in 1..Len(frame_rows) |->
        [c \in DOMAIN frame_rows[k] \cup {column} |->
            IF c = column THEN values[k] ELSE frame_rows[k][c]]]

(* df[column].dtype *)
dtype(values) ==
    LET ts == {values[k].t : k \in 1..Len(values)}
    IN  IF ts = {"num"} THEN "int64"
        ELSE IF ts \subseteq {"num", "float", "null", "nan"}
                /\ ts \cap {"num", "float", "nan"} # {}
        THEN "float64"
        ELSE IF ts = {"bool"} THEN "bool"
        ELSE IF ts \subseteq {"datetime", "nat"} THEN "datetime64[ns]"
        ELSE "object"

(* lines 439-458: a dict or list value becomes the JSON text of what it     *)
(* holds without its None values, or None when nothing is left              *)
processed_value(value) ==
    CASE value.t = "dict" ->
            LET cleaned_dict == SelectSeq(value.kv, LAMBDA item : item[2] # Null)
            IN  IF cleaned_dict # << >> THEN json_dumps(Dict(cleaned_dict)) ELSE Null
      [] value.t = "list" ->
            LET cleaned_list == SelectSeq(value.items, LAMBDA v : v # Null)
            IN  IF cleaned_list # << >> THEN json_dumps(List(cleaned_list)) ELSE Null
      [] OTHER -> value

processed_data(batch) ==
    [k \in 1..Len(batch) |->
        [key \in DOMAIN batch[k] |-> processed_value(batch[k][key])]]

(* pd.to_datetime(v, unit='s', errors='coerce'), for an int, None or a text *)
(* that is no number                                                        *)
to_datetime_s(v) == IF v.t = "num" THEN Datetime(v.n) ELSE NaT

(* pd.to_datetime(v, errors='coerce'), for an ISO text, None or another text *)
to_datetime(v) ==
    CASE v.t = "datetime" -> v
      [] v.t = "str" /\ "iso" \in DOMAIN v -> Datetime(v.iso)
      [] OTHER -> NaT

(* lines 469-514 on one row: every rename whose source is a key of the row; *)
(* begin and end are converted before they are renamed.  No row holds both  *)
(* the source and the target of a rename.                                   *)
rename_row(row) ==
    [c \in {rename(k) : k \in DOMAIN row} |->
        LET k == CHOOSE key \in DOMAIN row : rename(key) = c
        IN  IF k \in {Col("begin"), Col("end")} THEN to_datetime_s(row[k])
            ELSE row[k]]

(* variant of extract_first_user: the last key *)
extract_first_user_LastKey(auth_users_str) ==
    IF isna(auth_users_str) \/ ~truthy(auth_users_str) THEN Null
    ELSE LET auth_dict == IF isinstance(auth_users_str, "str")
                          THEN json_loads(auth_users_str) ELSE Raises("TypeError")
         IN  IF auth_dict.raised = "" /\ isinstance(auth_dict.val, "dict")
                /\ auth_dict.val.kv # << >>
             THEN Str(<<auth_dict.val.kv[Len(auth_dict.val.kv)][1]>>)
             ELSE Null

(* extract_first_user: whatever json.loads raises is swallowed *)
extract_first_user(auth_users_str) ==
    IF isna(auth_users_str) \/ ~truthy(auth_users_str) THEN Null
    ELSE LET auth_dict == IF isinstance(auth_users_str, "str")
                          THEN json_loads(auth_users_str) ELSE Raises("TypeError")
         IN  IF auth_dict.raised = "" /\ isinstance(auth_dict.val, "dict")
                /\ auth_dict.val.kv # << >>
             THEN Str(<<auth_dict.val.kv[1][1]>>)
             ELSE Null

(* float(v), as Series.astype(float) applies it to a value *)
as_float(v) ==
    CASE v.t = "num" -> Returns(Float(v.n, 1))
      [] v.t = "float" -> Returns(v)
      [] v.t = "bool" -> Returns(Float(IF v.b THEN 1 ELSE 0, 1))
      [] v.t \in {"null", "nan"} -> Returns(NaN)
      [] v.t = "str" /\ "json" \in DOMAIN v /\ v.json.t = "num" ->
            Returns(Float(v.json.n, 1))
      [] v.t = "str" /\ "json" \in DOMAIN v /\ v.json.t = "float" ->
            Returns(v.json)
      [] v.t = "str" -> Raises("ValueError")
      [] OTHER -> Raises("TypeError")

(* whether Series.astype(float) raises *)
astype_float_raises(values) ==
    \E k \in 1..Len(values) : as_float(values[k]).raised # ""

(* variant of exec_count_of: the zero is kept *)
exec_count_of_ZeroKept(row) == as_float(At(row, Col("exec_count"))).val

(* exec_count = df['exec_count'].astype(float).replace(0, float('nan')), for *)
(* one row                                                                  *)
exec_count_of(row) ==
    LET x == as_float(At(row, Col("exec_count"))).val
    IN  IF x.t = "float" /\ x.n = 0 THEN NaN ELSE x

(* variant of avg_pairs: the sum column is not looked for *)
avg_pairs_All(frame_rows) == avg_columns_map

(* variant of avg_pairs: the derivation table also names the request-unit   *)
(* columns, under the names the renames gave them                           *)
avg_pairs_WithRU(frame_rows) ==
    {m \in avg_columns_map
            \cup {<<name, name>> : name \in {"AVG_REQUEST_UNIT_READ",
                                             "AVG_REQUEST_UNIT_WRITE",
                                             "AVG_QUEUED_RC_TIME"}} :
        Col(m[1]) \in columns(frame_rows)}

(* the pairs of avg_columns_map the loop does not skip *)
avg_pairs(frame_rows) ==
    {m \in avg_columns_map : Col(m[1]) \in columns(frame_rows)}

(* lines 517-530: df['sample_user'] = df['auth_users'].apply(...) *)
with_sample_user(frame_rows) ==
    IF Col("auth_users") \notin columns(frame_rows) THEN frame_rows
    ELSE Assign(frame_rows, Col("sample_user"),
                [k \in 1..Len(frame_rows) |->
                    extract_first_user(At(frame_rows[k], Col("auth_users")))])

(* lines 534-537: first_seen and last_seen go through pd.to_datetime *)
seen_column(frame_rows, column) ==
    IF column \notin columns(frame_rows) THEN frame_rows
    ELSE Assign(frame_rows, column,
                [k \in 1..Len(frame_rows) |-> to_datetime(At(frame_rows[k], column))])

with_seen(frame_rows) ==
    seen_column(seen_column(frame_rows, Col("first_seen")), Col("last_seen"))

(* lines 541-581, when no astype(float) raises: every pair that is not      *)
(* skipped assigns its avg column, also over a column of that name          *)
with_avg(frame_rows) ==
    IF Col("exec_count") \notin columns(frame_rows) THEN frame_rows
    ELSE LET pairs == avg_pairs(frame_rows)
         IN  [k \in 1..Len(frame_rows) |->
                 [c \in DOMAIN frame_rows[k] \cup {Col(m[2]) : m \in pairs} |->
                     IF \E m \in pairs : c = Col(m[2])
                     THEN LET m == CHOOSE q \in pairs : c = Col(q[2])
                          IN  truediv(as_float(At(frame_rows[k], Col(m[1]))).val,
                                      exec_count_of(frame_rows[k]))
                     ELSE frame_rows[k][c]]]

(* whether an astype(float) of lines 542-581 raises *)
avg_raises(frame_rows) ==
    /\ Col("exec_count") \in columns(frame_rows)
    /\ \/ astype_float_raises(Column(frame_rows, Col("exec_count")))
       \/ \E m \in avg_pairs(frame_rows) :
             astype_float_raises(Column(frame_rows, Col(m[1])))

(* lines 584-585 *)
stamped(frame_rows, now, num) ==
    Assign(Assign(frame_rows, Col("processed_at"),
                  [k \in 1..Len(frame_rows) |-> Datetime(now)]),
           Col("batch_num"), [k \in 1..Len(frame_rows) |-> Num(num)])

(* --------------------------- _infer_column_type ------------------------- *)
Digits == {"0", "1", "2", "3", "4", "5", "6", "7", "8", "9"}

(* x.replace('-', '').isdigit(), x a str: the JSON text of an int is its    *)
(* decimal digits after an optional minus; the words of a text that is no   *)
(* JSON text, and an ISO text, hold other characters                        *)
isdigit_without_minus(x) ==
    IF "chars" \in DOMAIN x
    THEN LET rest == SelectSeq(x.chars, LAMBDA c : c # "-")
         IN  rest # << >> /\ \A k \in 1..Len(rest) : rest[k] \in Digits
    ELSE "json" \in DOMAIN x /\ x.json.t = "num"

(* _is_float(x): whether float(x) returns *)
_is_float(x) ==
    CASE x.t \in {"num", "float", "bool"} -> TRUE
      [] x.t = "str" /\ "json" \in DOMAIN x -> x.json.t \in {"num", "float"}
      [] x.t = "str" /\ "chars" \in DOMAIN x ->
            LET digits == IF x.chars # << >> /\ x.chars[1] = "-"
                          THEN Tail(x.chars) ELSE x.chars
            IN  digits # << >> /\ \A k \in 1..Len(digits) : digits[k] \in Digits
      [] OTHER -> FALSE

(* `sample` holds the values the two all(...) go through: those of non_null *)
(* that are not in ['None', '']                                             *)
_infer_column_type(values) ==
    LET non_null == SelectSeq(values, LAMBDA x : ~isna(x))
        sample == SelectSeq(non_null,
                            LAMBDA x : x \notin {Text(<<"N", "o", "n", "e">>),
                                                 Text(<< >>)})
    IN  IF Len(non_null) = 0 THEN "string"
        ELSE IF \E k \in 1..Len(non_null) : non_null[k].t \in {"list", "dict"}
        THEN "string"
        ELSE IF \A k \in 1..Len(sample) :
                   \/ sample[k].t \in {"num", "bool"}
                   \/ sample[k].t = "str" /\ isdigit_without_minus(sample[k])
        THEN "int64"
        ELSE IF \A k \in 1..Len(sample) : _is_float(sample[k]) THEN "float64"
        ELSE "string"

(* ---------------------------- _get_delta_schema ------------------------- *)
(* the type of the field lines 144-171 append for a column *)
field_type(column, values) ==
    IF column \in {Col("processed_at"), Col("batch_num")} THEN "timestamp[us]"
    ELSE IF column \in {Col("summary_begin_time"), Col("summary_end_time")}
    THEN "timestamp[ns]"
    ELSE IF column \in {Col("first_seen"), Col("last_seen")}
    THEN (IF dtype(values) \in {"object", "string"} THEN "string"
          ELSE "timestamp[ns]")
    ELSE IF column \in {Col("is_internal"), Col("prepared"), Col("plan_in_cache"),
                        Col("plan_in_binding")}
    THEN "bool"
    ELSE IF column \in {Col("index_names"), Col("backoff_types"), Col("auth_users")}
    THEN "string"
    ELSE IF dtype(values) \in {"int64", "int32"} THEN "int64"
    ELSE IF dtype(values) \in {"float64", "float32"} THEN "float64"
    ELSE "string"

(* variant of _get_delta_schema: the fields of a fixed vocabulary are added *)
_get_delta_schema_Vocabulary(frame_rows) ==
    [column \in columns(frame_rows) \cup {Col("digest_text"), Col("plan")} |->
        field_type(column, Column(frame_rows, column))]

_get_delta_schema(frame_rows) ==
    [column \in columns(frame_rows) |->
        field_type(column, Column(frame_rows, column))]

(* ------------------ _write_batch_to_delta, step by step ----------------- *)
(* The objects of the lines of a statement file. *)
StatementRecords ==
    { Dict(<< <<"exec_count", Num(5)>>, <<"sum_latency", Num(500)>>,
              <<"sum_rru", Num(9)>>, <<"resource_group_name", Str(<<"default">>)>>,
              <<"begin", Num(60)>>,
              <<"auth_users", Dict(<< <<"root", Dict(<< >>)>>,
                                      <<"admin", Dict(<< >>)>> >>)>> >>),
      Dict(<< <<"exec_count", Num(0)>>, <<"sum_latency", Num(500)>>,
              <<"begin", Str(<<"soon">>)>>, <<"auth_users", Dict(<< >>)>>,
              <<"prepared", Bool(FALSE)>>, <<"sum_wru", Num(8)>> >>),
      Dict(<< <<"sum_latency", Num(7)>>, <<"sum_mem", Num(3)>>,
              <<"auth_users", Null>>, <<"conn_id", JsonStr(Num(12))>>,
              <<"first_seen", IsoStr(5)>> >>),
      Dict(<< <<"exec_count", Num(2)>>, <<"sum_latency", Num(7)>>,
              <<"auth_users", Str(<<"not", "json">>)>>,
              <<"conn_id", JsonStr(Num(34))>>, <<"end", Null>>,
              <<"sum_ru_wait_duration", Num(6)>> >>),
      Dict(<< <<"exec_count", Str(<<"n/a">>)>>, <<"sum_latency", Num(1)>> >>),
      Dict(<< <<"exec_count", Num(1)>>, <<"sum_latency", Str(<<"n/a">>)>> >>),
      Dict(<< <<"digest", Str(<<"d2">>)>>,
              <<"auth_users", List(<<Str(<<"root">>)>>)>>,
              <<"last_seen", Str(<<"never">>)>> >>),
      Dict(<< <<"auth_users", Num(5)>>, <<"max_rru", Num(4)>> >>),
      Dict(<< <<"auth_users", JsonStr(Dict(<< <<"guest", Dict(<< >>)>> >>))>>,
              <<"exec_count", JsonStr(Num(4))>>, <<"sum_mem", Num(6)>> >>),
      PlainRecord }

(* batch_data.append(flattened) for a line that holds the object *)
BatchItem(object) == ItemRecords(<<object>>, 1)[1]

(* the batch_data a file of at most MaxRows object lines gives *)
Batches ==
    UNION {[1..n -> {BatchItem(object) : object \in StatementRecords}] :
              n \in 0..MaxRows}

(* datetime.now() *)
Clock == {100, 101}

(* lines 439-465: processed_data holds a record, the frame is built *)
FrameBuild ==
    /\ frame_pc = "build"
    /\ processed_data(frame_data) # << >>
    /\ df' = processed_data(frame_data)
    /\ frame_pc' = "rename"
    /\ UNCHANGED <<pipeline, parser, inferrer, frame_data, delta_schema>>

(* lines 460-462: `if not processed_data: return` *)
FrameEmpty ==
    /\ frame_pc = "build"
    /\ processed_data(frame_data) = << >>
    /\ frame_pc' = "return"
    /\ UNCHANGED <<pipeline, parser, inferrer, frame_data, df, delta_schema>>

(* lines 467-514 *)
FrameRename ==
    /\ frame_pc = "rename"
    /\ df' = [k \in 1..Len(df) |-> rename_row(df[k])]
    /\ frame_pc' = "sample_user"
    /\ UNCHANGED <<pipeline, parser, inferrer, frame_data, delta_schema>>

(* lines 516-530 *)
FrameSampleUser ==
    /\ frame_pc = "sample_user"
    /\ df' = with_sample_user(df)
    /\ frame_pc' = "seen"
    /\ UNCHANGED <<pipeline, parser, inferrer, frame_data, delta_schema>>

(* lines 532-537 *)
FrameSeen ==
    /\ frame_pc = "seen"
    /\ df' = with_seen(df)
    /\ frame_pc' = "avg"
    /\ UNCHANGED <<pipeline, parser, inferrer, frame_data, delta_schema>>

(* lines 539-581 *)
FrameAvg ==
    /\ frame_pc = "avg"
    /\ ~avg_raises(df)
    /\ df' = with_avg(df)
    /\ frame_pc' = "stamp"
    /\ UNCHANGED <<pipeline, parser, inferrer, frame_data, delta_schema>>

(* lines 542, 581 and 641-643: astype(float) raises, the function re-raises *)
FrameAvgRaise ==
    /\ frame_pc = "avg"
    /\ avg_raises(df)
    /\ frame_pc' = "raise"
    /\ UNCHANGED <<pipeline, parser, inferrer, frame_data, df, delta_schema>>

(* lines 583-585 *)
FrameStamp ==
    /\ frame_pc = "stamp"
    /\ \E now \in Clock : df' = stamped(df, now, batch_num[1])
    /\ frame_pc' = "schema"
    /\ UNCHANGED <<pipeline, parser, inferrer, frame_data, delta_schema>>

(* line 588; the frame then goes to pa.Table.from_pandas *)
FrameSchema ==
    /\ frame_pc = "schema"
    /\ delta_schema' = _get_delta_schema(df)
    /\ frame_pc' = "table"
    /\ UNCHANGED <<pipeline, parser, inferrer, frame_data, df>>

(* A batch of at most MaxRows records goes through _write_batch_to_delta,   *)
(* up to the retry loop.                                                    *)
InitFrames ==
    /\ source = Layout(<<"obj">>, <<"obj">>, <<"obj">>)
    /\ InitRun
    /\ InitParser
    /\ InitInferrer
    /\ frame_data \in Batches
    /\ df = << >>
    /\ frame_pc = "build"
    /\ delta_schema = << >>

NextFrame ==
    \/ FrameBuild
    \/ FrameEmpty
    \/ FrameRename
    \/ FrameSampleUser
    \/ FrameSeen
    \/ FrameAvg
    \/ FrameAvgRaise
    \/ FrameStamp
    \/ FrameSchema

SpecFrame == InitFrames /\ [][NextFrame]_vars

(* ----------------------- _infer_column_type, applied -------------------- *)
(* The values a column may hold when its type is inferred. *)
SampleValues ==
    { Null, NaN, Num(5), Bool(TRUE), Float(3, 2),
      JsonStr(Num(12)), JsonStr(Num(-5)), JsonStr(Float(3, 2)),
      Text(<<"1", "-", "2">>), Text(<<"5", "-">>), Text(<<"-", "-", "5">>),
      Text(<< >>), Text(<<"N", "o", "n", "e">>), Str(<<"abc">>),
      List(<<Num(1)>>), Dict(<< <<"k", Num(1)>> >>) }

SeriesValues == UNION {[1..n -> SampleValues] : n \in 0..MaxSample}

Infer ==
    /\ inferred = ""
    /\ inferred' = _infer_column_type(series)
    /\ UNCHANGED <<pipeline, parser, frame, series>>

InitInfer ==
    /\ source = Layout(<<"obj">>, <<"obj">>, <<"obj">>)
    /\ InitRun
    /\ InitParser
    /\ InitFrame
    /\ series \in SeriesValues
    /\ inferred = ""

SpecInfer == InitInfer /\ [][Infer]_vars

TypeOK ==
    /\ source \in Layouts
    /\ \A r \in Instances :
         /\ pc[r] \in {"idle", "load", "find", "read", "prepare", "write",
                       "save_exists", "save_write", "done"}
         /\ run[r] \in 0..(MaxRuns + 1)
         /\ exit_code[r] \in {-1, 0, 1}
         /\ attempt[r] \in 0..(max_retries - 1)
         /\ processed_files[r] \subseteq Files
         /\ calls[r] \in 0..(MaxCalls + 1)

(* ------------------------- what the claims speak of --------------------- *)
ThisRun(r) == <<r, run[r]>>

AllBatches == table[TableName("statement")] \o table[TableName("slowlog")]

(* number of appends of f's batch committed to a table, by anyone / by one run *)
Appends(f) == Cardinality({k \in 1..Len(AllBatches) : AllBatches[k].file = f})

AppendsBy(f, who) ==
    Cardinality({k \in 1..Len(AllBatches) :
                    AllBatches[k].file = f /\ AllBatches[k].by = who})

RECURSIVE RowsFrom(_, _, _)
RowsFrom(batches, who, n) ==
    IF n > Len(batches) THEN 0
    ELSE (IF batches[n].by = who THEN batches[n].rows ELSE 0)
         + RowsFrom(batches, who, n + 1)

(* rows a run has appended to the tables *)
RowsBy(who) == RowsFrom(AllBatches, who, 1)

(* the records a source file holds *)
Records(f) == ParseContent(source[f], 1)

RECURSIVE SumRecords(_)
SumRecords(S) ==
    IF S = {} THEN 0
    ELSE LET f == CHOOSE x \in S : TRUE
         IN  Len(Records(f)) + SumRecords(S \ {f})

InLedger(f) == f \in SeqToSet(ledger[f.prefix].lines)

(* the files a run selects over both families when both listings succeed *)
Selected(r) == {f \in Files : f.suffix \in LogSuffixes /\ f \notin processed_files[r]}

Last(s) == s[Len(s)]

(* the iteration of file k of the current selection is over and the run went on *)
Completed(r, k) ==
    \/ k < i[r]
    \/ /\ k = i[r]
       /\ \/ pc[r] = "find" /\ family[r] = "slowlog"
          \/ pc[r] = "done" /\ exit_code[r] = 0

(* _write_batch_to_delta raised out of its retry loop *)
WriteFailed(r) ==
    /\ outcomes[r] # << >>
    /\ \/ Last(outcomes[r]) = "error"
       \/ outcomes[r] = <<"conflict", "conflict", "conflict">>

(* -------------------------------- claims -------------------------------- *)

(* C1: every id a run has appended to the ledger is the id of a file whose  *)
(* batch that run had already appended to the table, or of a file that      *)
(* holds no record.                                                         *)
C1_MarkedAfterWrite ==
    \A r \in Instances : \A f \in marked[r] :
        AppendsBy(f, ThisRun(r)) >= 1 \/ Records(f) = << >>

C1_Witness ==
    \E r \in Instances : \E f \in marked[r] :
        Records(f) # << >> /\ AppendsBy(f, ThisRun(r)) = 1 /\ InLedger(f)

(* C2: over non-overlapping runs the batch of each source file is appended  *)
(* to the table at most once, whatever I/O failures occur.                   *)
C2_AtMostOnce == \A f \in Files : Appends(f) <= 1

(* C3 as stated: a batch whose appends all fail with a metadata conflict    *)
(* has been attempted 4 times, with sleeps of 1, 2 and 4 seconds.           *)
C3_ThreeRetries ==
    \A r \in Instances :
        Exhausted(r) => Len(outcomes[r]) = 4 /\ slept[r] = <<1, 2, 4>>

(* C3 amended: a batch is attempted at most 3 times; a metadata conflict on *)
(* the first attempt is followed by a sleep of 1 s, on the second by a      *)
(* sleep of 2 s, and on the third it is re-raised: no sleep of 4 s.         *)
ConflictsOf(r) ==
    Cardinality({k \in 1..Len(outcomes[r]) : outcomes[r][k] = "conflict"})

C3_TwoRetries ==
    \A r \in Instances :
        /\ Len(outcomes[r]) <= 3
        /\ slept[r] = SubSeq(<<1, 2>>, 1, IF ConflictsOf(r) < 2 THEN ConflictsOf(r) ELSE 2)
        /\ ConflictsOf(r) = 3 <=> Exhausted(r)

C3_Witness ==
    \E r \in Instances :
        /\ Exhausted(r)
        /\ outcomes[r] = <<"conflict", "conflict", "conflict">>
        /\ slept[r] = <<1, 2>>

(* C4: when k < 3 conflicts are followed by a successful attempt, exactly   *)
(* one append of the batch is committed and the run goes on to append the   *)
(* file id to the ledger; the id is in the ledger unless that append itself *)
(* raised.                                                                  *)
C4_OneAppendThenMark ==
    \A r \in Instances :
        /\ (outcomes[r] # << >> /\ Last(outcomes[r]) = "ok") =>
              /\ Len(outcomes[r]) <= 3
              /\ \A k \in 1..(Len(outcomes[r]) - 1) : outcomes[r][k] = "conflict"
              /\ AppendsBy(CurrentFile(r), ThisRun(r)) = 1
              /\ pc[r] \in {"save_exists", "save_write"}
        /\ \A f \in Files :
              AppendsBy(f, ThisRun(r)) >= 1 =>
                 /\ AppendsBy(f, ThisRun(r)) = 1
                 /\ \/ f \in marked[r] \cup unsaved[r]
                    \/ /\ pc[r] \in {"save_exists", "save_write"}
                       /\ f = CurrentFile(r)
                 /\ f \in marked[r] => InLedger(f)

C4_Witness ==
    \E r \in Instances :
        /\ outcomes[r] = <<"conflict", "conflict", "ok">>
        /\ pc[r] = "save_write"
        /\ AppendsBy(CurrentFile(r), ThisRun(r)) = 1

(* C5: when the first attempt fails with a cause that is no metadata        *)
(* conflict, there is no other attempt, no append of the batch is committed *)
(* and the file id is not appended to the ledger in this run.               *)
C5_NoRetryOnError ==
    \A r \in Instances :
        (outcomes[r] # << >> /\ outcomes[r][1] = "error") =>
            /\ outcomes[r] = <<"error">>
            /\ slept[r] = << >>
            /\ pc[r] = "done"
            /\ exit_code[r] = 1
            /\ AppendsBy(CurrentFile(r), ThisRun(r)) = 0
            /\ CurrentFile(r) \notin marked[r]

C5_Witness ==
    \E r \in Instances :
        /\ outcomes[r] = <<"error">>
        /\ pc[r] = "done"
        /\ Records(CurrentFile(r)) # << >>

(* C6 as stated: after the write of a file's batch has failed, the run goes *)
(* on, so that when it is over every later file of the selection has been   *)
(* handled.                                                                 *)
C6_ContinuesAfterWriteFailure ==
    \A r \in Instances :
        (WriteFailed(r) /\ pc[r] = "done") =>
            \A k \in (i[r] + 1)..Len(new_files[r]) :
                new_files[r][k] \in marked[r] \cup skipped[r] \cup unsaved[r]

(* C6 amended: when the write of a file's batch fails, the exception leaves *)
(* run() and main exits with code 1: the failed file is not marked and no   *)
(* later file of the selection is read, written or marked in that run.      *)
C6_AbortsRun ==
    \A r \in Instances :
        /\ WriteFailed(r) => pc[r] = "done" /\ exit_code[r] = 1
        /\ exit_code[r] = 1 =>
              /\ pc[r] = "done"
              /\ CurrentFile(r) \notin marked[r] \cup unsaved[r]
              /\ \A k \in (i[r] + 1)..Len(new_files[r]) :
                    /\ new_files[r][k] \notin marked[r] \cup skipped[r] \cup unsaved[r]
                    /\ AppendsBy(new_files[r][k], ThisRun(r)) = 0

C6_Witness ==
    \E r \in Instances :
        /\ WriteFailed(r)
        /\ exit_code[r] = 1
        /\ i[r] < Len(new_files[r])

(* C7: a file whose append ran out of retries is not appended to the ledger *)
(* by that run, and the next run, having loaded the ledger and listed the   *)
(* source, selects it again.                                                *)
SelectionMade(r, prefix) ==
    /\ family[r] = prefix
    /\ pc[r] \in {"read", "prepare", "write", "save_exists", "save_write"}

C7_RetriedNextRun ==
    \A r \in Instances :
        /\ Exhausted(r) => CurrentFile(r) \notin marked[r]
        /\ \A f \in prev_exhausted[r] :
              (faults[r] = {} /\ SelectionMade(r, f.prefix)) =>
                  f \in SeqToSet(new_files[r])

(* C8: a file whose read raises is skipped: this run appends nothing of it  *)
(* to the table and does not append its id to the ledger, and goes on with  *)
(* the next file of the selection.                                          *)
C8_SkipUnreadable ==
    \A r \in Instances :
        /\ \A f \in skipped[r] :
              /\ AppendsBy(f, ThisRun(r)) = 0
              /\ f \notin marked[r] \cup unsaved[r]
        /\ \A k \in 1..Len(new_files[r]) :
              new_files[r][k] \in skipped[r] =>
                 IF k < Len(new_files[r])
                 THEN i[r] > k
                 ELSE \/ pc[r] = "find" /\ family[r] = "slowlog"
                      \/ pc[r] = "done" /\ exit_code[r] = 0

C8_Witness ==
    \E r \in Instances :
        /\ pc[r] = "read"
        /\ i[r] = 2
        /\ new_files[r][1] \in skipped[r]
        /\ exit_code[r] = -1

(* C9: a run whose ledger load or source listing raised at startup appends  *)
(* nothing to the table and exits with a non-zero code.                     *)
C9_AbortsAtStartup ==
    \A r \in Instances :
        faults[r] # {} =>
            /\ RowsBy(ThisRun(r)) = 0
            /\ pc[r] = "done" => exit_code[r] = 1

(* C10: a file that holds no record is never appended to the table and its  *)
(* id is still appended to the ledger (unless that append itself raised);   *)
(* a run without I/O failure marks every selected file and appends as many  *)
(* rows as the selected files hold records.                                 *)
NoIOFailure(r) ==
    /\ pc[r] = "done"
    /\ exit_code[r] = 0
    /\ faults[r] = {}
    /\ skipped[r] = {}
    /\ unsaved[r] = {}

C10_EmptyFileMarked ==
    \A r \in Instances :
        /\ \A f \in Files : Records(f) = << >> => Appends(f) = 0
        /\ \A k \in 1..Len(new_files[r]) :
              LET f == new_files[r][k]
              IN  (Completed(r, k) /\ Records(f) = << >> /\ f \notin skipped[r]) =>
                     /\ f \in marked[r] \cup unsaved[r]
                     /\ f \in marked[r] => InLedger(f)
        /\ NoIOFailure(r) =>
              /\ marked[r] = Selected(r)
              /\ RowsBy(ThisRun(r)) = SumRecords(Selected(r))

C10_Witness ==
    \E r \in Instances :
        /\ NoIOFailure(r)
        /\ RowsBy(ThisRun(r)) = 4
        /\ Cardinality(marked[r]) = 3
        /\ \E f \in marked[r] : Records(f) = << >> /\ InLedger(f)

(* ----------------------- claims about the line loop --------------------- *)
(* number of records of flat_batch that line n gave *)
RecordsOfLine(n) == Cardinality({k \in 1..Len(origin) : origin[k][1] = n})

Malformed(line) == line # Str(<< >>) /\ "json" \notin DOMAIN line

ObjectLine(line) == "json" \in DOMAIN line /\ line.json.t = "dict"

ObjectsArrayLine(line) ==
    /\ "json" \in DOMAIN line
    /\ line.json.t = "list"
    /\ \A k \in 1..Len(line.json.items) : line.json.items[k].t = "dict"

(* C11: a line that is no JSON text gives no record and does not end the    *)
(* line loop: every line the loop has passed that holds a JSON object has   *)
(* given one record, and every line that holds an array of objects one      *)
(* record per item, in the order of the lines, whether a malformed line     *)
(* comes before or after it.                                                *)
C11_MalformedLineDropped ==
    /\ Len(flat_batch) = Len(origin)
    /\ \A j, k \in 1..Len(origin) : j < k => origin[j][1] <= origin[k][1]
    /\ \A n \in 1..(line_no - 1) :
          /\ Malformed(content[n]) => RecordsOfLine(n) = 0
          /\ ObjectLine(content[n]) => RecordsOfLine(n) = 1
          /\ ObjectsArrayLine(content[n]) =>
                RecordsOfLine(n) = Len(content[n].json.items)

C11_Witness ==
    /\ Len(content) = 3
    /\ line_no = 4
    /\ ObjectLine(content[1])
    /\ Malformed(content[2])
    /\ ObjectsArrayLine(content[3])
    /\ RecordsOfLine(1) = 1
    /\ RecordsOfLine(3) = 2

(* --------------------- claims about selection and ledgers --------------- *)
(* C12: a selection (in a run whose listings have not failed) changes       *)
(* neither the source, nor the ledgers, nor the ledger set in memory, and   *)
(* selecting again (same listing, same ledger set) gives the same files, at *)
(* the selection and at every later point of the file loop.                 *)
C12_SelectionIdempotent ==
    [][\A r \in Instances :
          /\ (/\ pc[r] = "find"
              /\ "list" \notin faults'[r]
              /\ <<pc[r], family[r]>>' # <<pc[r], family[r]>>) =>
                 /\ UNCHANGED <<source, ledger, processed_files>>
                 /\ new_files'[r] =
                       SelectNew(_find_json_files(family[r]), processed_files'[r])
          /\ SelectionMade(r, family[r])' =>
                 new_files'[r] =
                     SelectNew(_find_json_files(family'[r]), processed_files'[r])
      ]_vars

C12_Witness ==
    \E r \in Instances :
        /\ run[r] = 2
        /\ pc[r] = "read"
        /\ family[r] = "statement"
        /\ processed_files[r] = {SourceObjects[2]}
        /\ new_files[r] = <<SourceObjects[3]>>

(* C13: every id of a family's ledger is a path under that family's prefix, *)
(* and a listed file is left out of a family's selection only if its id is  *)
(* in that family's own ledger: an id that only the other ledger holds      *)
(* keeps no file out.                                                       *)
LedgerIds(log_type) == SeqToSet(ledger[log_type].lines)

C13_LedgersIndependent ==
    /\ \A t \in SeqToSet(LogTypes) : \A id \in LedgerIds(t) : id.prefix = t
    /\ \A r \in Instances :
          SelectionMade(r, family[r]) =>
              \A f \in SeqToSet(_find_json_files(family[r])) :
                  f \notin SeqToSet(new_files[r]) => f \in LedgerIds(family[r])

C13_Witness ==
    \E r \in Instances :
        /\ SelectionMade(r, "statement")
        /\ LedgerIds("statement") = {}
        /\ processed_files[r] = {SourceObjects[1]}
        /\ SourceObjects[1] \in LedgerIds("slowlog")
        /\ new_files[r] = <<SourceObjects[2], SourceObjects[3]>>

(* C14: the ledger is append-only under any interleaving of instances: an   *)
(* id that a ledger holds is held by it after every step.                    *)
C14_AppendOnly ==
    [][\A t \in SeqToSet(LogTypes) : LedgerIds(t) \subseteq LedgerIds(t)']_vars

(* C15: nothing orders two overlapping instances.  An instance selects      *)
(* every listed file that the ledger set it loaded does not hold, whatever  *)
(* the other instance is doing; an instance that is at the append of a      *)
(* batch can commit it and one that is at the ledger write can write,       *)
(* in every state.  So a file that neither ledger set held is appended      *)
(* twice and marked twice (the witness).                                    *)
C15_NoMutualExclusion ==
    \A r \in Instances :
        /\ SelectionMade(r, family[r]) =>
              \A f \in SeqToSet(_find_json_files(family[r])) :
                  f \notin processed_files[r] => f \in SeqToSet(new_files[r])
        /\ pc[r] = "write" => ENABLED WriteOk(r)
        /\ pc[r] = "save_write" => ENABLED SaveWrite(r)

C15_Witness ==
    \E f \in Files :
        /\ \A r \in {1, 2} :
              /\ f \notin processed_files[r]
              /\ f \in SeqToSet(new_files[r])
              /\ AppendsBy(f, ThisRun(r)) = 1
              /\ f \in marked[r]
        /\ Appends(f) = 2
        /\ Cardinality({k \in 1..Len(ledger[f.prefix].lines) :
                           ledger[f.prefix].lines[k] = f}) = 2

(* ------------------------ claims about the file loop -------------------- *)
StageRank(stage) ==
    CASE stage = "Selected" -> 0
      [] stage = "Read" -> 1
      [] stage = "Parsed" -> 2
      [] stage = "Written" -> 3
      [] stage = "MarkedProcessed" -> 4

(* positions of the events of a run *)
Events(r) == 1..Len(stages[r])

FileAt(r, k) == stages[r][k][1]

RankAt(r, k) == StageRank(stages[r][k][2])

(* file f was selected before file g by the same selection *)
SelectedBefore(r, f, g) ==
    \E k, l \in Events(r) :
        /\ k < l
        /\ stages[r][k] = <<f, "Selected">>
        /\ stages[r][l] = <<g, "Selected">>
        /\ f.prefix = g.prefix

Running(r) == pc[r] \notin {"idle", "done"}

C17_RunTerminates ==
    /\ [](\A r \in Instances :
             /\ Len(outcomes[r]) <= max_retries
             /\ attempt[r] < max_retries
             /\ Running(r) /\ new_files[r] # << >> => i[r] <= Len(new_files[r]))
    /\ \A r \in Instances : Running(r) ~> (pc[r] = "done" /\ exit_code[r] \in {0, 1})

C17_Witness ==
    \E r \in Instances :
        /\ run[r] = 2
        /\ pc[r] = "done"
        /\ exit_code[r] = 1
        /\ ConflictsOf(r) = max_retries
        /\ i[r] = Len(new_files[r])

(* --------------------------- claims about the table --------------------- *)
(* the union of the column sets of the batches appended to a table *)
BatchColumns(t) == UNION {table[t][k].columns : k \in 1..Len(table[t])}

(* C18: after every step the column set of each table is the union of the   *)
(* column sets of the batches appended to it so far, and no step removes a  *)
(* column from a table.                                                     *)
C18_SchemaUnion ==
    [][\A t \in TableNames :
          /\ schema[t] \subseteq schema'[t]
          /\ schema'[t] = BatchColumns(t)']_vars

C18_Witness ==
    \E t \in TableNames :
        /\ Len(table[t]) >= 2
        /\ schema[t] = BatchColumns(t)
        /\ table[t][1].columns # Last(table[t]).columns
        /\ Last(table[t]).columns # schema[t]
        /\ <<"plan", "id">> \in schema[t] \ Last(table[t]).columns

(* ----------------------- claims about the records ----------------------- *)
(* the value of the line, and the item of it, that record j of flat_batch   *)
(* came from                                                                *)
DataOf(j) == content[origin[j][1]].json

ItemOf(j) ==
    IF DataOf(j).t = "list" THEN DataOf(j).items[origin[j][2]] ELSE DataOf(j)

has_key(d, key) == d.t = "dict" /\ \E n \in 1..Len(d.kv) : d.kv[n][1] = key

(* C19: when auth_users, backoff_types or index_names of a record holds an  *)
(* object, the flattened record has a column of that very name, whose value *)
(* is the JSON text of the object, or null when the object is empty, and    *)
(* has no column whose dotted name starts with that name.                   *)
C19_ComplexFieldsKept ==
    \A j \in 1..Len(flat_batch) :
        LET record == _parse_record(ItemOf(j)).val
            flat == flat_batch[j]
        IN  \A c \in ComplexFields :
                (has_key(record, c) /\ getitem(record, c).val.t = "dict") =>
                    LET v == getitem(record, c).val
                    IN  /\ <<c>> \in DOMAIN flat
                        /\ flat[<<c>>] = IF v.kv = << >> THEN Null ELSE JsonStr(v)
                        /\ \A key \in DOMAIN flat : Len(key) > 1 => key[1] # c

C19_Witness ==
    \E j \in 1..Len(flat_batch) :
        /\ ItemOf(j) = IndexRecord
        /\ DOMAIN flat_batch[j] = {<<"backoff_types">>, <<"index_names">>}
        /\ flat_batch[j][<<"backoff_types">>] = Null
        /\ flat_batch[j][<<"index_names">>] =
              JsonStr(Dict(<< <<"t", Dict(<< <<"k", Num(1)>> >>)>> >>))

(* C20: every line the loop has passed whose JSON value is a number, a      *)
(* string, a boolean or null has given exactly one record, and that record  *)
(* has the single column `value` holding the value.                         *)
ScalarLine(line) ==
    "json" \in DOMAIN line /\ line.json.t \in {"num", "str", "bool", "null"}

C20_ScalarLineValueRecord ==
    \A n \in 1..(line_no - 1) :
        ScalarLine(content[n]) =>
            /\ RecordsOfLine(n) = 1
            /\ \A j \in 1..Len(flat_batch) :
                  origin[j][1] = n =>
                      flat_batch[j] = [key \in {<<"value">>} |-> content[n].json]

(* ------------------------ claims about the frame ------------------------ *)
(* the schema has been built for the frame *)
SchemaBuilt == frame_pc = "table"

FrameBefore == processed_data(frame_data)

(* the renames have just been applied *)
Renamed == frame_pc = "sample_user"

RenameSources == {Col(RenameTable[n][1]) : n \in 1..Len(RenameTable)}

(* the frame has no column named source any more, and each row that had a   *)
(* value under source has the value converted(value) under target          *)
RenamedBy(source_col, target_col, converted(_)) ==
    /\ source_col \notin columns(df)
    /\ \A k \in 1..Len(df) :
          source_col \in DOMAIN FrameBefore[k] =>
              /\ target_col \in DOMAIN df[k]
              /\ df[k][target_col] = converted(FrameBefore[k][source_col])

Same(value) == value

(* the time a number of seconds denotes, null for what is no number *)
TimeOf(value) == IF value.t = "num" THEN Datetime(value.n) ELSE NaT

(* columns not named in the rename table keep their names and values *)
OthersKept ==
    \A k \in 1..Len(df) :
        \A column \in DOMAIN FrameBefore[k] \ RenameSources :
            column \in DOMAIN df[k] /\ df[k][column] = FrameBefore[k][column]

(* C22 as stated: after the renames, for every pair of the rename table     *)
(* whose source is a column of the batch and whose target is not, the       *)
(* target column holds the values of the source column, the source column   *)
(* is gone, and the other columns keep their names.                         *)
C22_RenamedSameValues ==
    Renamed =>
        /\ \A n \in 1..Len(RenameTable) :
              (Col(RenameTable[n][1]) \in columns(FrameBefore)
                  /\ Col(RenameTable[n][2]) \notin columns(FrameBefore)) =>
                  RenamedBy(Col(RenameTable[n][1]), Col(RenameTable[n][2]), Same)
        /\ OthersKept

(* C22, amended: the same for every pair but begin and end, whose target    *)
(* column holds the time each source value denotes as a number of seconds,  *)
(* and null where the source value is no number.                            *)
C22_RenamedOrConverted ==
    Renamed =>
        /\ \A n \in 1..Len(RenameTable) :
              (Col(RenameTable[n][1]) \in columns(FrameBefore)
                  /\ Col(RenameTable[n][2]) \notin columns(FrameBefore)) =>
                  IF RenameTable[n][1] \in {"begin", "end"}
                  THEN RenamedBy(Col(RenameTable[n][1]), Col(RenameTable[n][2]),
                                 TimeOf)
                  ELSE RenamedBy(Col(RenameTable[n][1]), Col(RenameTable[n][2]),
                                 Same)
        /\ OthersKept

C22_Witness ==
    /\ Renamed
    /\ Col("resource_group_name") \in columns(FrameBefore)
    /\ Col("resource_group_name") \notin columns(df)
    /\ \E k \in 1..Len(df) :
          /\ At(df[k], Col("resource_group")) = Str(<<"default">>)
          /\ At(df[k], Col("AVG_REQUEST_UNIT_READ")) = Num(9)
          /\ At(df[k], Col("summary_begin_time")) = Datetime(60)
    /\ \E k \in 1..Len(df) :
          /\ At(FrameBefore[k], Col("begin")) = Str(<<"soon">>)
          /\ At(df[k], Col("summary_begin_time")) = NaT

(* the avg derivation has been applied *)
Derived == frame_pc \in {"stamp", "schema", "table"}

(* the frame the avg derivation was applied to *)
FrameRenamed ==
    with_seen(with_sample_user([k \in 1..Len(FrameBefore) |->
                                   rename_row(FrameBefore[k])]))

(* a text that is no number is in the column *)
HoldsText(frame_rows, column) ==
    \E k \in 1..Len(frame_rows) :
        LET v == At(frame_rows[k], column)
        IN  v.t = "str" /\ ~("json" \in DOMAIN v /\ v.json.t \in {"num", "float"})

(* C23: for batches whose records carry no avg column of their own: after   *)
(* the avg derivation, the avg column of a pair of the derivation table is  *)
(* a column of the batch exactly when the sum column of the pair and        *)
(* exec_count are columns of the batch, and then every row has it; the      *)
(* derivation raises only over a text in exec_count or in a sum column that *)
(* is present, never over an absent column.                                 *)
C23_AvgIffSumAndCount ==
    /\ Derived =>
          \A m \in avg_columns_map :
              /\ Col(m[2]) \in columns(df) <=>
                    {Col(m[1]), Col("exec_count")} \subseteq columns(FrameRenamed)
              /\ Col(m[2]) \in columns(df) =>
                    \A k \in 1..Len(df) : Col(m[2]) \in DOMAIN df[k]
    /\ frame_pc = "raise" =>
          /\ Col("exec_count") \in columns(df)
          /\ \/ HoldsText(df, Col("exec_count"))
             \/ \E m \in avg_columns_map :
                   Col(m[1]) \in columns(df) /\ HoldsText(df, Col(m[1]))

C23_Witness ==
    /\ Derived
    /\ {Col("exec_count"), Col("sum_latency")} \subseteq columns(FrameRenamed)
    /\ Col("sum_mem") \notin columns(FrameRenamed)
    /\ Col("avg_latency") \in columns(df)
    /\ Col("avg_mem") \notin columns(df)
    /\ \E k \in 1..Len(df) : Col("sum_latency") \notin DOMAIN df[k]

(* the number a cell holds for astype(float): an int, a float, or the text  *)
(* of one                                                                   *)
IsNumber(v) ==
    \/ v.t \in {"num", "float"}
    \/ v.t = "str" /\ "json" \in DOMAIN v /\ v.json.t \in {"num", "float"}

NumberOf(v) == as_float(v).val

(* C24: after the avg derivation, in every row and for every pair whose avg *)
(* column was derived: when exec_count and the sum are numbers and          *)
(* exec_count is not zero, avg * exec_count = sum (exec_count 5 and         *)
(* sum_latency 500 give avg_latency 100); when exec_count is zero the avg   *)
(* is null; and a batch whose exec_count and sum values are numbers or      *)
(* missing does not raise, zeros included.                                  *)
C24_AvgValue ==
    /\ Derived =>
          \A k \in 1..Len(df) :
              \A m \in avg_columns_map :
                  Col(m[2]) \in DOMAIN df[k] =>
                      LET count == At(df[k], Col("exec_count"))
                          sum == At(df[k], Col(m[1]))
                          avg == df[k][Col(m[2])]
                      IN  /\ (IsNumber(count) /\ NumberOf(count).n # 0
                                 /\ IsNumber(sum)) =>
                                /\ avg.t = "float"
                                /\ avg.n * NumberOf(count).n * NumberOf(sum).d
                                      = NumberOf(sum).n * avg.d * NumberOf(count).d
                          /\ (IsNumber(count) /\ NumberOf(count).n = 0) =>
                                isna(avg)
                          /\ (count = Num(5) /\ sum = Num(500)) =>
                                avg = Float(100, 1)
    /\ frame_pc = "raise" =>
          \E k \in 1..Len(df) :
              \E column \in {Col("exec_count")}
                               \cup {Col(m[1]) : m \in avg_columns_map} :
                  LET v == At(df[k], column)
                  IN  ~IsNumber(v) /\ ~isna(v)

C24_Witness ==
    /\ Derived
    /\ \E k \in 1..Len(df) :
          /\ At(df[k], Col("exec_count")) = Num(0)
          /\ At(df[k], Col("sum_latency")) = Num(500)
          /\ At(df[k], Col("avg_latency")) = NaN
    /\ \E k \in 1..Len(df) :
          /\ At(df[k], Col("exec_count")) = Num(2)
          /\ At(df[k], Col("sum_latency")) = Num(7)
          /\ At(df[k], Col("avg_latency")) = Float(7, 2)

(* sample_user has been extracted *)
UserExtracted == frame_pc \in {"seen", "avg", "stamp", "schema", "table", "raise"}

(* the auth_users value of record k of batch_data as the line held it: the  *)
(* JSON text the allow-list made of an object stands for the object         *)
AuthUsersOf(k) ==
    LET v == At(frame_data[k], Col("auth_users"))
    IN  IF v.t = "str" /\ "json" \in DOMAIN v /\ v.json.t = "dict" THEN v.json
        ELSE v

(* C25: once sample_user is extracted, in every row of a batch that has the *)
(* auth_users column: sample_user is the first key of the auth_users object *)
(* when that object is not empty, and null when auth_users is an empty      *)
(* object (null after the allow-list), null, missing, or a value that does  *)
(* not parse to an object; the step never raises.                           *)
C25_SampleUser ==
    /\ (UserExtracted /\ Col("auth_users") \in columns(FrameBefore)) =>
          \A k \in 1..Len(df) :
              /\ Col("sample_user") \in DOMAIN df[k]
              /\ LET v == AuthUsersOf(k)
                 IN  df[k][Col("sample_user")] =
                        IF v.t = "dict" /\ v.kv # << >> THEN Str(<<v.kv[1][1]>>)
                        ELSE Null
    /\ (UserExtracted /\ Col("auth_users") \notin columns(FrameBefore)) =>
          Col("sample_user") \notin columns(df)
    /\ frame_pc = "sample_user" => ENABLED FrameSampleUser

C25_Witness ==
    /\ frame_pc = "seen"
    /\ Len(df) = 2
    /\ At(frame_data[1], Col("auth_users")).t = "str"
    /\ AuthUsersOf(1).t = "dict"
    /\ Len(AuthUsersOf(1).kv) = 2
    /\ df[1][Col("sample_user")] = Str(<<"root">>)
    /\ At(frame_data[2], Col("auth_users")) = Str(<<"not", "json">>)
    /\ df[2][Col("sample_user")] = Null

(* -------------------------- claims about the schema --------------------- *)
(* C26: in every batch schema the batch_num column has integer type.        *)
C26_BatchNumInteger ==
    SchemaBuilt => delta_schema[Col("batch_num")] = "int64"

(* the column names _get_delta_schema types by name *)
NamedColumns ==
    { Col("processed_at"), Col("batch_num"), Col("summary_begin_time"),
      Col("summary_end_time"), Col("first_seen"), Col("last_seen"),
      Col("is_internal"), Col("prepared"), Col("plan_in_cache"),
      Col("plan_in_binding"), Col("index_names"), Col("backoff_types"),
      Col("auth_users") }

(* C27: in every batch schema, a column that is not typed by its name and   *)
(* whose values are not held as native ints or floats has the type          *)
(* _infer_column_type returns for its values.                               *)
C27_DefersToInferrer ==
    SchemaBuilt =>
        \A column \in DOMAIN delta_schema \ NamedColumns :
            dtype(Column(df, column)) \notin {"int64", "int32", "float64", "float32"}
                => delta_schema[column] = _infer_column_type(Column(df, column))

(* ---------------------- claims about _infer_column_type ----------------- *)
(* _infer_column_type has returned *)
Returned == inferred \notin {"", "off"}

(* the sampled values: those that are not missing, null or an empty string *)
Sampled(values) ==
    SelectSeq(values, LAMBDA x : ~isna(x) /\ x # Text(<< >>))

(* a string made only of an optional single leading minus, then digits *)
MinusDigits(x) ==
    /\ x.t = "str"
    /\ \/ "json" \in DOMAIN x /\ x.json.t = "num"
       \/ /\ "chars" \in DOMAIN x
          /\ LET digits == IF x.chars # << >> /\ x.chars[1] = "-"
                           THEN Tail(x.chars) ELSE x.chars
             IN  digits # << >> /\ \A k \in 1..Len(digits) : digits[k] \in Digits

(* C28: for a sample that is not empty, the type returned is integer        *)
(* exactly when no sampled value is a list or a dict and every sampled      *)
(* value is an int (or bool) or a string made only of an optional single    *)
(* leading minus followed by digits.                                        *)
C28_IntegerExactly ==
    (Returned /\ Sampled(series) # << >>) =>
        (inferred = "int64" <=>
            LET sample == Sampled(series)
            IN  \A k \in 1..Len(sample) :
                    /\ sample[k].t \notin {"list", "dict"}
                    /\ sample[k].t \in {"num", "bool"} \/ MinusDigits(sample[k]))

(* C29: the type returned for a series is the type returned for every       *)
(* series that differs from it only by null, missing or empty-string        *)
(* values; in particular a series of empty strings only gets the type of    *)
(* the series without values.                                               *)
C29_EmptyValuesNeutral ==
    Returned =>
        \A other \in SeriesValues :
            Sampled(other) = Sampled(series) =>
                _infer_column_type(other) = inferred

(* --------------------- claims about _parse_record ----------------------- *)
(* the flattened record of a logical record *)
Flattened(record) == _flatten_dict(_preprocess_complex_fields(record))

(* C30: every record of the batch that came from an object is the flattened *)
(* decoded value of the object's message, and nothing of the object's other *)
(* fields, when message is a string that holds valid JSON; it is the        *)
(* flattened object itself when message is a string that is no JSON, is not *)
(* a string, or is absent.                                                  *)
C30_MessageUnwrapped ==
    \A j \in 1..Len(flat_batch) :
        LET item == ItemOf(j)
        IN  item.t = "dict" =>
                IF has_key(item, "message")
                      /\ getitem(item, "message").val.t = "str"
                      /\ "json" \in DOMAIN getitem(item, "message").val
                THEN flat_batch[j] = Flattened(getitem(item, "message").val.json)
                ELSE flat_batch[j] = Flattened(item)

C30_Witness ==
    /\ \E j \in 1..Len(flat_batch) :
          /\ ItemOf(j) = WrappedRecord
          /\ DOMAIN flat_batch[j] = {<<"auth_users">>, <<"plan", "id">>}
    /\ \E j \in 1..Len(flat_batch) :
          /\ ItemOf(j) = ObjectMessageRecord
          /\ DOMAIN flat_batch[j] = {<<"level">>, <<"message", "text">>}
    /\ \E j \in 1..Len(flat_batch) :
          /\ ItemOf(j) = TextMessageRecord
          /\ flat_batch[j][<<"message">>] = Str(<<"slow", "query">>)

(* C31: appending a file's id to the ledger leaves self.processed_files of  *)
(* the same DeltaConverter as it was.  A file the object has marked stays   *)
(* outside its processed_files; every later selection the object makes      *)
(* under the file's prefix selects the file again; and when the file loop   *)
(* is at the append of such a file with rows, the append can commit, which  *)
(* puts the rows of the file into the table once more.                      *)
C31_SelectedAgain ==
    [][\A f \in marked[1] :
          /\ f \notin processed_files'[1]
          /\ (FindOk(1) /\ f.prefix = family[1]) => f \in SeqToSet(new_files'[1])
          /\ (pc[1] = "write" /\ CurrentFile(1) = f) => ENABLED WriteOk(1)]_vars

(* run() was called twice on one DeltaConverter, and a file the first call  *)
(* appended and marked has two batches in the table from that object.       *)
C31_Witness ==
    /\ calls[1] = 2
    /\ \E f \in marked[1] :
          /\ InLedger(f)
          /\ f \notin processed_files[1]
          /\ Records(f) # << >>
          /\ AppendsBy(f, ThisRun(1)) = 2

(* number of lines of the file's ledger that hold its id *)
LedgerLines(f) ==
    Cardinality({k \in 1..Len(ledger[f.prefix].lines) : ledger[f.prefix].lines[k] = f})

(* C32: a failure of _save_processed_files after the batch of the file was  *)
(* appended does not leave the function.  The step changes neither the      *)
(* tables nor the ledger, so the rows stay and the id stays out; the file   *)
(* loop goes on with the next file, or convert_* returns as after a mark    *)
(* and main can exit 0.  As long as the id is in no line of the ledger,     *)
(* every selection under the file's prefix selects the file, and at its     *)
(* append the rows can be committed once more.                              *)
C32_SaveFailureSwallowed ==
    [][/\ SaveRaise(1) =>
             /\ UNCHANGED <<table, ledger>>
             /\ exit_code'[1] # 1
             /\ IF i[1] < Len(new_files[1])
                THEN pc'[1] = "read" /\ i'[1] = i[1] + 1
                ELSE \/ pc'[1] = "find" /\ family[1] = "statement"
                     \/ pc'[1] = "done" /\ exit_code'[1] = 0
       /\ \A f \in Files :
             (Appends(f) > 0 /\ ~InLedger(f)) =>
                 /\ (FindOk(1) /\ f.prefix = family[1]) => f \in SeqToSet(new_files'[1])
                 /\ (pc[1] = "write" /\ CurrentFile(1) = f) => ENABLED WriteOk(1)]_vars

(* The first run appended the file and its ledger write failed; the second  *)
(* run loaded the ledger, selected the file, appended it again and marked   *)
(* it: two batches in the table, one line in the ledger, exit code 0.       *)
C32_Witness ==
    /\ run[1] = 2
    /\ exit_code[1] = 0
    /\ "load" \notin faults[1]
    /\ \E f \in marked[1] :
          /\ AppendsBy(f, <<1, 1>>) = 1
          /\ AppendsBy(f, <<1, 2>>) = 1
          /\ LedgerLines(f) = 1

(* the slow-query files that have an event, a batch or a fate in the run *)
SlowlogTouched(r) ==
    {f \in Files :
        /\ f.prefix = "slowlog"
        /\ \/ \E k \in Events(r) : FileAt(r, k) = f
           \/ f \in marked[r] \cup skipped[r] \cup unsaved[r]
           \/ f \in SeqToSet(new_files[r])
           \/ AppendsBy(f, ThisRun(r)) > 0}

(* C33: when _write_batch_to_delta raises out of its retry loop during      *)
(* convert_statements, the step ends the run: the exception leaves run()    *)
(* with the statement family current and main exits 1.  In a run that       *)
(* ended so, no slow-query file was selected, read, appended or marked and  *)
(* no further step of the run is possible, whatever the slow-query source   *)
(* holds.                                                                   *)
C33_SlowlogsNotStarted ==
    /\ [][((WriteError(1) \/ WriteConflict(1)) /\ family[1] = "statement"
              /\ WriteFailed(1)') =>
             /\ pc'[1] = "done"
             /\ exit_code'[1] = 1
             /\ family'[1] = "statement"]_vars
    /\ []((exit_code[1] = 1 /\ family[1] = "statement") =>
             /\ SlowlogTouched(1) = {}
             /\ ~ENABLED Work(1))

(* A statement write failed and ended the run while a slow-query file with  *)
(* records, listed and absent from the ledger, was waiting.                 *)
C33_Witness ==
    /\ WriteFailed(1)
    /\ exit_code[1] = 1
    /\ CurrentFile(1).prefix = "statement"
    /\ \E f \in Selected(1) :
          /\ f.prefix = "slowlog"
          /\ Records(f) # << >>
          /\ ~InLedger(f)

(* the <<outer key, field, object>> triples of a record: an object held by  *)
(* auth_users, backoff_types or index_names inside an object-valued key     *)
(* that is not one of the three itself                                      *)
NestedComplex(record) ==
    IF record.t # "dict" THEN {}
    ELSE UNION
           {LET outer == record.kv[n][1]
                inner == record.kv[n][2]
            IN  IF outer \in ComplexFields \/ inner.t # "dict" THEN {}
                ELSE {<<outer, inner.kv[m][1], inner.kv[m][2]>> :
                         m \in {l \in 1..Len(inner.kv) :
                                   /\ inner.kv[l][1] \in ComplexFields
                                   /\ inner.kv[l][2].t = "dict"}} :
            n \in 1..Len(record.kv)}

(* C34: _preprocess_complex_fields looks at the top-level keys only.  When  *)
(* auth_users, backoff_types or index_names holds an object one level down, *)
(* inside another object, the flattened record has no column named          *)
(* outer.field and no column holding the JSON text of the object; each key  *)
(* of the object has given columns whose dotted name starts with            *)
(* outer.field.key.                                                         *)
C34_AllowListTopLevelOnly ==
    \A j \in 1..Len(flat_batch) :
        LET flat == flat_batch[j]
        IN  \A nested \in NestedComplex(_parse_record(ItemOf(j)).val) :
                LET outer == nested[1]
                    field == nested[2]
                    object == nested[3]
                IN  /\ <<outer, field>> \notin DOMAIN flat
                    /\ \A key \in DOMAIN flat : flat[key] # JsonStr(object)
                    /\ \A n \in 1..Len(object.kv) :
                          \E key \in DOMAIN flat :
                              /\ Len(key) >= 3
                              /\ SubSeq(key, 1, 3) = <<outer, field, object.kv[n][1]>>

C34_Witness ==
    \E j \in 1..Len(flat_batch) :
        /\ ItemOf(j) = NestedRecord
        /\ NestedComplex(NestedRecord) # {}
        /\ DOMAIN flat_batch[j] = {<<"detail", "index_names", "t">>}
        /\ flat_batch[j][<<"detail", "index_names", "t">>] = Num(1)

(* the items of a list that _parse_record raises TypeError for *)
RaisingItems(items) ==
    {k \in 1..Len(items) : _parse_record(items[k]).raised = "TypeError"}

(* the records of flat_batch that line n gave, in order *)
LineBatch(n) ==
    SelectSeq([j \in 1..Len(flat_batch) |-> <<origin[j], flat_batch[j]>>],
              LAMBDA entry : entry[1][1] = n)

(* C35: a line the loop has passed that holds a JSON array with an item k   *)
(* whose normalization raises TypeError has given the records of the items  *)
(* before the first such k, one each and in order, and nothing of item k or *)
(* of the items after it: fewer records than the array has items.           *)
C35_ArrayLineKeepsPrefix ==
    \A n \in 1..(line_no - 1) :
        LET line == content[n]
        IN  ("json" \in DOMAIN line /\ line.json.t = "list"
                 /\ RaisingItems(line.json.items) # {}) =>
                LET items == line.json.items
                    k == CHOOSE m \in RaisingItems(items) :
                             \A l \in RaisingItems(items) : m <= l
                IN  /\ Len(LineBatch(n)) = k - 1
                    /\ Len(LineBatch(n)) < Len(items)
                    /\ \A m \in 1..(k - 1) :
                          /\ LineBatch(n)[m][1] = <<n, m>>
                          /\ LineBatch(n)[m][2] =
                                _flatten_dict(_preprocess_complex_fields(
                                    _parse_record(items[m]).val))

(* The array [record, 5, record] was passed: its first record is in the     *)
(* batch and its third is not.                                              *)
C35_Witness ==
    \E n \in 1..(line_no - 1) :
        /\ content[n] = JsonStr(List(<<PlainRecord, Num(5), IndexRecord>>))
        /\ Len(LineBatch(n)) = 1
        /\ LineBatch(n)[1][2] = _flatten_dict(PlainRecord)
        /\ \A j \in 1..Len(flat_batch) : ItemOf(j) # IndexRecord

(* the renames whose target is named AVG_* *)
AvgRenames ==
    {<<"sum_rru", "AVG_REQUEST_UNIT_READ">>,
     <<"sum_wru", "AVG_REQUEST_UNIT_WRITE">>,
     <<"sum_ru_wait_duration", "AVG_QUEUED_RC_TIME">>}

(* C36: the three pairs are pairs of the rename table, and none of their    *)
(* names is a sum column or an avg column of the derivation table.  From    *)
(* the renames on, through the avg derivation and up to the table, every    *)
(* row that had a value under sum_rru, sum_wru or sum_ru_wait_duration      *)
(* holds that very value under the AVG_* name, whatever its exec_count is.  *)
C36_AvgNamedColumnsCarrySum ==
    /\ \A p \in AvgRenames :
          /\ \E n \in 1..Len(RenameTable) : RenameTable[n] = p
          /\ \A m \in avg_columns_map : {m[1], m[2]} \cap {p[1], p[2]} = {}
    /\ frame_pc \in {"sample_user", "seen", "avg", "stamp", "schema", "table", "raise"} =>
          \A p \in AvgRenames :
              \A k \in 1..Len(df) :
                  Col(p[1]) \in DOMAIN FrameBefore[k] =>
                      /\ Col(p[2]) \in DOMAIN df[k]
                      /\ df[k][Col(p[2])] = FrameBefore[k][Col(p[1])]

(* After the avg derivation a row with exec_count 5 and sum_rru 9 holds 9   *)
(* under AVG_REQUEST_UNIT_READ next to its avg_latency of 500 / 5, and a    *)
(* row with exec_count 0 holds its sum_wru of 8 under                       *)
(* AVG_REQUEST_UNIT_WRITE.                                                  *)
C36_Witness ==
    /\ Derived
    /\ \E k \in 1..Len(df) :
          /\ At(FrameBefore[k], Col("exec_count")) = Num(5)
          /\ At(df[k], Col("AVG_REQUEST_UNIT_READ")) = Num(9)
          /\ At(df[k], Col("avg_latency")) = Float(100, 1)
    /\ \E k \in 1..Len(df) :
          /\ At(FrameBefore[k], Col("exec_count")) = Num(0)
          /\ At(df[k], Col("AVG_REQUEST_UNIT_WRITE")) = Num(8)

====
